---- MODULE Spec2Model ----
(***************************************************************************)
(* Model of the transform stage of the real-estate ETL pipeline            *)
(* (src/etl_ontology/etl/transform.py) and of the ontology population      *)
(* step (src/etl_ontology/ontology/create_populate_ontology.py).           *)
(*                                                                         *)
(* A text value is a sequence of one-character strings, so that the        *)
(* conversions of parse_date (float(), int(), slicing, split, strptime,    *)
(* strftime) are computed character by character.                          *)
(***************************************************************************)
EXTENDS Integers, Sequences, FiniteSets, TLC

(***************************************************************************)
(* Characters and text helpers (Python str methods used by transform.py)   *)
(***************************************************************************)
Digits == <<"0", "1", "2", "3", "4", "5", "6", "7", "8", "9">>

LowerChars == <<"a", "b", "c", "d", "e", "f", "g", "h", "i", "j", "k", "l", "m",
                "n", "o", "p", "q", "r", "s", "t", "u", "v", "w", "x", "y", "z">>

UpperChars == <<"A", "B", "C", "D", "E", "F", "G", "H", "I", "J", "K", "L", "M",
                "N", "O", "P", "Q", "R", "S", "T", "U", "V", "W", "X", "Y", "Z">>

IsDigit(c) == \E i \in 1..10 : Digits[i] = c

DigitVal(c) == (CHOOSE i \in 1..10 : Digits[i] = c) - 1

IsSpace(c) == c = " "

\* str.upper() and str.lower() on one character
Upper(c) ==
    IF \E i \in 1..26 : LowerChars[i] = c
    THEN UpperChars[CHOOSE i \in 1..26 : LowerChars[i] = c]
    ELSE c

Lower(c) ==
    IF \E i \in 1..26 : UpperChars[i] = c
    THEN LowerChars[CHOOSE i \in 1..26 : UpperChars[i] = c]
    ELSE c

UpperStr(s) == [i \in 1..Len(s) |-> Upper(s[i])]

LowerStr(s) == [i \in 1..Len(s) |-> Lower(s[i])]

\* s[a..b] for 1-based inclusive positions, empty when a > b
Slice(s, a, b) == IF a > b THEN <<>> ELSE SubSeq(s, a, b)

\* s[:n]
Prefix(s, n) == IF Len(s) <= n THEN s ELSE SubSeq(s, 1, n)

RECURSIVE LStrip(_)
LStrip(s) == IF s # <<>> /\ IsSpace(Head(s)) THEN LStrip(Tail(s)) ELSE s

RECURSIVE RStrip(_)
RStrip(s) ==
    IF s # <<>> /\ IsSpace(s[Len(s)]) THEN RStrip(SubSeq(s, 1, Len(s) - 1)) ELSE s

\* str.strip()
Strip(s) == RStrip(LStrip(s))

\* position of the first c in s, or 0
IndexOf(s, c) ==
    IF \E i \in 1..Len(s) : s[i] = c
    THEN CHOOSE i \in 1..Len(s) : s[i] = c /\ \A j \in 1..(i - 1) : s[j] # c
    ELSE 0

\* s[:i-1] for the position i of a separator, all of s when i = 0
Before(s, i) == IF i = 0 THEN s ELSE Slice(s, 1, i - 1)

\* s.split('-')[0]
BeforeDash(s) == Before(s, IndexOf(s, "-"))

\* s.split(): the maximal runs of non-whitespace characters, in order
RECURSIVE SplitWs(_, _)
SplitWs(s, cur) ==
    IF s = <<>> THEN (IF cur = <<>> THEN <<>> ELSE <<cur>>)
    ELSE IF IsSpace(Head(s))
         THEN (IF cur = <<>> THEN <<>> ELSE <<cur>>) \o SplitWs(Tail(s), <<>>)
         ELSE SplitWs(Tail(s), Append(cur, Head(s)))

Split(s) == SplitWs(s, <<>>)

AllDigits(s) == s # <<>> /\ \A i \in 1..Len(s) : IsDigit(s[i])

\* value of a digit string
RECURSIVE DigitsToNat(_)
DigitsToNat(s) ==
    IF s = <<>> THEN 0 ELSE 10 * DigitsToNat(SubSeq(s, 1, Len(s) - 1)) + DigitVal(s[Len(s)])

\* str(n) for n >= 0
RECURSIVE NatToStr(_)
NatToStr(n) == IF n < 10 THEN <<Digits[n + 1]>> ELSE NatToStr(n \div 10) \o <<Digits[(n % 10) + 1]>>

\* str(n) for an int
IntToStr(n) == IF n < 0 THEN <<"-">> \o NatToStr(0 - n) ELSE NatToStr(n)

\* zero-padded to two characters, as strftime's %m and %d
Pad2(n) == IF n < 10 THEN <<"0">> \o NatToStr(n) ELSE NatToStr(n)

(***************************************************************************)
(* Python conversions.  A result is [tag, val]: tag "ok" with the value,   *)
(* or the name of the exception raised.                                    *)
(***************************************************************************)
HasSign(s) == s # <<>> /\ Head(s) \in {"+", "-"}

Unsigned(s) == IF HasSign(s) THEN Tail(s) ELSE s

SignOf(s) == IF s # <<>> /\ Head(s) = "-" THEN 0 - 1 ELSE 1

\* int() of a text without surrounding whitespace
IntOfStripped(s) ==
    IF AllDigits(Unsigned(s))
    THEN [tag |-> "ok", val |-> SignOf(s) * DigitsToNat(Unsigned(s))]
    ELSE [tag |-> "ValueError", val |-> 0]

\* int(text): surrounding whitespace, an optional sign, decimal digits
PyInt(text) == IntOfStripped(Strip(text))

\* int(float(text)) for texts without exponent or underscore: whitespace,
\* sign, digits with at most one '.', or the literals nan / inf / infinity.
\* int() truncates toward zero; nan raises ValueError, inf OverflowError.
\* sign is 1 or -1, low the lower-cased text after the sign, ip and fp its
\* parts before and after the first '.'
IntOfFloatParts(sign, low, ip, fp) ==
    IF low = <<"n", "a", "n">> THEN [tag |-> "ValueError", val |-> 0]
    ELSE IF low \in {<<"i", "n", "f">>, <<"i", "n", "f", "i", "n", "i", "t", "y">>}
    THEN [tag |-> "OverflowError", val |-> 0]
    ELSE IF /\ (ip = <<>> \/ AllDigits(ip))
            /\ (fp = <<>> \/ AllDigits(fp))
            /\ (ip # <<>> \/ fp # <<>>)
    THEN [tag |-> "ok", val |-> sign * DigitsToNat(ip)]
    ELSE [tag |-> "ValueError", val |-> 0]

IntOfFloatAt(sign, u, dot) ==
    IntOfFloatParts(sign, LowerStr(u), Before(u, dot),
                    IF dot = 0 THEN <<>> ELSE Slice(u, dot + 1, Len(u)))

IntOfFloatUnsigned(sign, u) == IntOfFloatAt(sign, u, IndexOf(u, "."))

IntOfFloatStripped(s) == IntOfFloatUnsigned(SignOf(s), Unsigned(s))

PyIntFloat(text) == IntOfFloatStripped(Strip(text))

(***************************************************************************)
(* DATE_FORMATS (ontology_config.py) and datetime.strptime / strftime      *)
(***************************************************************************)
\* DATE_FORMATS, keyed by the name the configuration gives each format; the
\* value is the format text.
DATE_FORMATS ==
    [ YYYY          |-> <<"%", "Y">>,
      YYYY_MM       |-> <<"%", "Y", "-", "%", "m">>,
      YYYY_MM_DD    |-> <<"%", "Y", "-", "%", "m", "-", "%", "d">>,
      DD_MMM_YY     |-> <<"%", "d", " ", "%", "b", " ", "%", "y">>,
      ACADEMIC_YEAR |-> <<"A", "C", "A", "D", "E", "M", "I", "C", "_", "Y", "E", "A", "R">>,
      YYYY_MMM      |-> <<"Y", "Y", "Y", "Y", " ", "M", "M", "M">>,
      YYYY_Q        |-> <<"Y", "Y", "Y", "Y", " ", "Q">> ]

\* abbreviated month names of the C locale, lower-cased
MonthAbbr ==
    << <<"j", "a", "n">>, <<"f", "e", "b">>, <<"m", "a", "r">>, <<"a", "p", "r">>,
       <<"m", "a", "y">>, <<"j", "u", "n">>, <<"j", "u", "l">>, <<"a", "u", "g">>,
       <<"s", "e", "p">>, <<"o", "c", "t">>, <<"n", "o", "v">>, <<"d", "e", "c">> >>

DaysInMonth(y, m) ==
    IF m = 2 THEN (IF (y % 4 = 0 /\ y % 100 # 0) \/ y % 400 = 0 THEN 29 ELSE 28)
    ELSE IF m \in {4, 6, 9, 11} THEN 30 ELSE 31

\* A strptime format as its sequence of elements: a directive letter
\* [dir |-> c] for "%c", or a literal character [lit |-> c].
RECURSIVE FormatElems(_)
FormatElems(f) ==
    IF f = <<>> THEN <<>>
    ELSE IF Head(f) = "%" /\ Len(f) >= 2
         THEN <<[dir |-> f[2], lit |-> ""]>> \o FormatElems(SubSeq(f, 3, Len(f)))
         ELSE <<[dir |-> "", lit |-> Head(f)]>> \o FormatElems(Tail(f))

NumAlt(n, lo, hi) == [k |-> "num", n |-> n, lo |-> lo, hi |-> hi]

\* The alternatives of one format element in the order the regular
\* expression of _strptime tries them: %Y \d\d\d\d, %y \d\d,
\* %m 1[0-2]|0[1-9]|[1-9], %d 3[0-1]|[1-2]\d|0[1-9]|[1-9]| [1-9],
\* %b the month names, whitespace \s+ (greedy), anything else itself.
ElemAlts(e, s, pos) ==
    IF e.dir = "Y" THEN <<NumAlt(4, 0, 9999)>>
    ELSE IF e.dir = "y" THEN <<NumAlt(2, 0, 99)>>
    ELSE IF e.dir = "m" THEN <<NumAlt(2, 10, 12), NumAlt(2, 1, 9), NumAlt(1, 1, 9)>>
    ELSE IF e.dir = "d"
    THEN <<NumAlt(2, 30, 31), NumAlt(2, 10, 29), NumAlt(2, 1, 9), NumAlt(1, 1, 9),
           [k |-> "spnum", n |-> 2, lo |-> 1, hi |-> 9]>>
    ELSE IF e.dir = "b" THEN [i \in 1..12 |-> [k |-> "mon", n |-> 3, lo |-> i, hi |-> i]]
    ELSE IF IsSpace(e.lit)
    THEN LET run == CHOOSE r \in 0..(Len(s) - pos + 1) :
                       /\ \A j \in pos..(pos + r - 1) : IsSpace(s[j])
                       /\ (pos + r > Len(s) \/ ~IsSpace(s[pos + r]))
         IN [i \in 1..run |-> [k |-> "ws", n |-> run + 1 - i, lo |-> 0, hi |-> 0]]
    ELSE <<[k |-> "lit", n |-> 1, lo |-> 0, hi |-> 0]>>

AltMatches(e, alt, sub) ==
    CASE alt.k = "num"   -> AllDigits(sub) /\ DigitsToNat(sub) \in alt.lo..alt.hi
      [] alt.k = "spnum" -> IsSpace(sub[1]) /\ IsDigit(sub[2]) /\ DigitVal(sub[2]) >= 1
      [] alt.k = "mon"   -> LowerStr(sub) = MonthAbbr[alt.lo]
      [] alt.k = "ws"    -> \A j \in 1..Len(sub) : IsSpace(sub[j])
      [] alt.k = "lit"   -> sub = <<e.lit>>

AltValue(alt, sub) ==
    CASE alt.k = "num"   -> DigitsToNat(sub)
      [] alt.k = "spnum" -> DigitVal(sub[2])
      [] alt.k = "mon"   -> alt.lo
      [] OTHER           -> 0

\* the fields found so far, updated by one matched element
WithField(acc, e, v) ==
    CASE e.dir = "Y" -> [acc EXCEPT !.year = v]
      [] e.dir = "y" -> [acc EXCEPT !.year = IF v <= 68 THEN 2000 + v ELSE 1900 + v]
      [] e.dir \in {"m", "b"} -> [acc EXCEPT !.month = v]
      [] e.dir = "d" -> [acc EXCEPT !.day = v]
      [] OTHER -> acc

NoMatch == [ok |-> FALSE, end |-> 0, year |-> 0, month |-> 0, day |-> 0]

\* re.match of the format's regular expression at pos: the first match in
\* backtracking order, as [ok, end, year, month, day]
RECURSIVE StrpMatch(_, _, _, _)
RECURSIVE StrpTry(_, _, _, _, _)
RECURSIVE StrpAlt(_, _, _, _, _, _, _)
StrpMatch(elems, s, pos, acc) ==
    IF elems = <<>> THEN [acc EXCEPT !.ok = TRUE, !.end = pos - 1]
    ELSE StrpTry(elems, s, pos, acc, ElemAlts(Head(elems), s, pos))

\* the first of the two matches that is one
FirstMatch(a, b) == IF a.ok THEN a ELSE b

\* the alternative alt of the first element on the text sub at pos
StrpAlt(elems, s, pos, acc, alt, fits, sub) ==
    IF fits /\ alt.n > 0 /\ AltMatches(Head(elems), alt, sub)
    THEN StrpMatch(Tail(elems), s, pos + alt.n, WithField(acc, Head(elems), AltValue(alt, sub)))
    ELSE NoMatch

StrpTry(elems, s, pos, acc, alts) ==
    IF alts = <<>> THEN NoMatch
    ELSE FirstMatch(StrpAlt(elems, s, pos, acc, Head(alts),
                            pos + Head(alts).n - 1 <= Len(s),
                            IF pos + Head(alts).n - 1 <= Len(s)
                            THEN Slice(s, pos, pos + Head(alts).n - 1) ELSE <<>>),
                    StrpTry(elems, s, pos, acc, Tail(alts)))

\* the result of strptime from the match m of a text of length n
StrptimeResult(m, n) ==
    IF ~m.ok \/ m.end # n \/ m.year < 1 \/ m.day > DaysInMonth(m.year, m.month)
    THEN [tag |-> "ValueError", year |-> 0, month |-> 0, day |-> 0]
    ELSE [tag |-> "ok", year |-> m.year, month |-> m.month, day |-> m.day]

\* datetime.strptime(s, f): the date, or ValueError when the text does not
\* match, when text remains after the match, or when the day is not in the
\* month
Strptime(s, f) ==
    StrptimeResult(StrpMatch(FormatElems(f), s, 1,
                             [ok |-> FALSE, end |-> 0, year |-> 1900, month |-> 1, day |-> 1]),
                   Len(s))

\* strftime('%Y-%m-%d') and strftime('%Y-%m'); %Y is the year as the C library
\* prints it (no padding), %m and %d are two digits
StrftimeYMD(d) == IntToStr(d.year) \o <<"-">> \o Pad2(d.month) \o <<"-">> \o Pad2(d.day)

StrftimeYM(d) == IntToStr(d.year) \o <<"-">> \o Pad2(d.month)

(***************************************************************************)
(* dateutil.parser.parse, as parse_date calls it (transform.py line 106)   *)
(***************************************************************************)
\* the year of the clock, which dateutil uses to place a two-digit year
ClockYear == 2026

\* the month of the clock, which dateutil gives a date without a month
ClockMonth == 11

IsMonthName(tok) == \E i \in 1..12 : LowerStr(tok) = MonthAbbr[i]

MonthOf(tok) == CHOOSE i \in 1..12 : LowerStr(tok) = MonthAbbr[i]

\* a two-digit year is placed within fifty years of the clock
ConvertYear(yy) ==
    IF 2000 + yy >= ClockYear + 50 THEN 1900 + yy
    ELSE IF 2000 + yy < ClockYear - 50 THEN 2100 + yy
    ELSE 2000 + yy

\* s.split('-')
RECURSIVE SplitDash(_, _)
SplitDash(s, cur) ==
    IF s = <<>> THEN <<cur>>
    ELSE IF Head(s) = "-" THEN <<cur>> \o SplitDash(Tail(s), <<>>)
         ELSE SplitDash(Tail(s), Append(cur, Head(s)))

DateOrError(f) ==
    IF f.y >= 1 /\ f.m \in 1..12 /\ f.d >= 1 /\ f.d <= DaysInMonth(f.y, f.m)
    THEN [tag |-> "ok", year |-> f.y, month |-> f.m, day |-> f.d]
    ELSE [tag |-> "ValueError", year |-> 0, month |-> 0, day |-> 0]

\* parse(text) for the texts parse_date hands to it: those float() rejects,
\* and a year of four digits on its own.
\* Recognised: "<year> <month name>" in either order, "<year>-<month>",
\* "<year>-<month>-<day>", "<day> <month name> <two-digit year>" and
\* "<year>", whose month is the month of the clock; a missing day is taken
\* from the clock and does not reach the result, which is formatted
\* '%Y-%m'.  Any other text has a token the parser does not know and raises
\* ParserError, a ValueError.
DateutilTokens(toks, dash) ==
    IF Len(toks) = 1 /\ AllDigits(toks[1]) /\ Len(toks[1]) = 4
    THEN [y |-> DigitsToNat(toks[1]), m |-> ClockMonth, d |-> 1]
    ELSE
    IF Len(toks) = 2 /\ AllDigits(toks[1]) /\ Len(toks[1]) = 4 /\ IsMonthName(toks[2])
    THEN [y |-> DigitsToNat(toks[1]), m |-> MonthOf(toks[2]), d |-> 1]
    ELSE IF Len(toks) = 2 /\ AllDigits(toks[2]) /\ Len(toks[2]) = 4 /\ IsMonthName(toks[1])
    THEN [y |-> DigitsToNat(toks[2]), m |-> MonthOf(toks[1]), d |-> 1]
    ELSE IF /\ Len(toks) = 3 /\ AllDigits(toks[1]) /\ Len(toks[1]) <= 2
            /\ IsMonthName(toks[2]) /\ AllDigits(toks[3]) /\ Len(toks[3]) = 2
    THEN [y |-> ConvertYear(DigitsToNat(toks[3])), m |-> MonthOf(toks[2]), d |-> DigitsToNat(toks[1])]
    ELSE IF /\ Len(dash) \in {2, 3}
            /\ \A i \in 1..Len(dash) : AllDigits(dash[i])
            /\ Len(dash[1]) = 4
            /\ \A i \in 2..Len(dash) : Len(dash[i]) <= 2
    THEN [y |-> DigitsToNat(dash[1]), m |-> DigitsToNat(dash[2]),
          d |-> IF Len(dash) = 3 THEN DigitsToNat(dash[3]) ELSE 1]
    ELSE [y |-> 0, m |-> 0, d |-> 0]

DateutilSplit(toks) ==
    DateOrError(DateutilTokens(toks, IF Len(toks) = 1 THEN SplitDash(toks[1], <<>>) ELSE <<>>))

DateutilParse(text) == DateutilSplit(Split(text))

(***************************************************************************)
(* parse_date (transform.py lines 69-114)                                  *)
(***************************************************************************)
\* a missing cell of the table (pandas NaN / None)
NaN == <<"NaN">>

\* pd.isna(x)
IsNa(x) == x = NaN

\* str(x) of a cell
Str(x) == IF IsNa(x) THEN <<"n", "a", "n">> ELSE x

\* A declared date_format is one format text or a list of them; the value
\* carries which, as isinstance(date_formats, str) reads it.
OneFormat(f) == [isstr |-> TRUE, v |-> f]

FormatList(l) == [isstr |-> FALSE, v |-> l]

\* the month a quarter starts in
QuarterMonth == [Q1 |-> <<"0", "1">>, Q2 |-> <<"0", "4">>, Q3 |-> <<"0", "7">>, Q4 |-> <<"1", "0">>]

\* the key without q.upper()
QuarterKeyExact(q) ==
    CASE q = <<"Q", "1">> -> "Q1"
      [] q = <<"Q", "2">> -> "Q2"
      [] q = <<"Q", "3">> -> "Q3"
      [] q = <<"Q", "4">> -> "Q4"
      [] OTHER -> ""

QuarterKey(q) ==
    CASE UpperStr(q) = <<"Q", "1">> -> "Q1"
      [] UpperStr(q) = <<"Q", "2">> -> "Q2"
      [] UpperStr(q) = <<"Q", "3">> -> "Q3"
      [] UpperStr(q) = <<"Q", "4">> -> "Q4"
      [] OTHER -> ""

Ok(v) == [tag |-> "ok", val |-> v]

Exc(name) == [tag |-> name, val |-> <<>>]

\* the body of the try block for one format: the returned text, the
\* exception raised, or "pass" when no branch matches the format
\* str(n) of a converted number, or the exception of the conversion
StrOfInt(n) == IF n.tag = "ok" THEN Ok(IntToStr(n.val)) ELSE Exc(n.tag)

\* strftime of a parsed date with or without the day, or the exception
StrOfDate(parsed_date, with_day) ==
    IF parsed_date.tag # "ok" THEN Exc(parsed_date.tag)
    ELSE IF with_day THEN Ok(StrftimeYMD(parsed_date))
    ELSE Ok(StrftimeYM(parsed_date))

\* lines 109-111 on the split text: the unpacking, the lookup of the quarter
QuarterOf(year, key) ==
    IF key = "" THEN Exc("KeyError") ELSE Ok(year \o <<"-">> \o QuarterMonth[key])

QuarterDate(toks) ==
    IF Len(toks) # 2 THEN Exc("ValueError") ELSE QuarterOf(toks[1], QuarterKey(toks[2]))

ParseOne(date_str, date_format) ==
    IF date_format = DATE_FORMATS.YYYY
    THEN StrOfInt(PyIntFloat(date_str))
    ELSE IF date_format = DATE_FORMATS.ACADEMIC_YEAR
    THEN StrOfInt(PyInt(Prefix(date_str, 4)))
    ELSE IF date_format \in {DATE_FORMATS.DD_MMM_YY, DATE_FORMATS.YYYY_MM_DD, DATE_FORMATS.YYYY_MM}
    THEN StrOfDate(Strptime(date_str, date_format), IndexOf(date_format, "d") # 0)
    ELSE IF date_format = DATE_FORMATS.YYYY_MMM
    THEN StrOfDate(DateutilParse(date_str), FALSE)
    ELSE IF date_format = DATE_FORMATS.YYYY_Q
    THEN QuarterDate(Split(date_str))
    ELSE Exc("pass")

\* the loop with every format tried and the last one that parses returned
OrLaterFormat(r, rest) ==
    IF rest.tag = "ok" \/ r.tag \in {"ValueError", "pass"} THEN rest ELSE r

\* except ValueError: continue; r is the outcome of one format and rest the
\* outcome of the formats after it
OrNextFormat(r, rest) == IF r.tag \in {"ValueError", "pass"} THEN rest ELSE r

\* the for loop: the first format that returns wins, ValueError moves on to
\* the next format, any other exception leaves parse_date
RECURSIVE ParseLoop(_, _)
ParseLoop(date_str, date_formats) ==
    IF date_formats = <<>> THEN Exc("none")
    ELSE OrNextFormat(ParseOne(date_str, Head(date_formats)),
                      ParseLoop(date_str, Tail(date_formats)))

\* parse_date(date_str, date_formats): [tag, val] with tag "ok" and the
\* standardised text, "none" for the None result, or the exception that
\* escapes
parse_date(date_str, date_formats) ==
    IF IsNa(date_str) THEN Exc("none")
    ELSE ParseLoop(Strip(Str(date_str)),
                   IF date_formats.isstr THEN <<date_formats.v>> ELSE date_formats.v)

(***************************************************************************)
(* RDF terms.  A node is [t, ns, v]: a URI under the namespace path ns     *)
(* with local part v, or a literal of datatype ns with lexical form v.     *)
(* A triple is <<subject, predicate, object>>, a graph a set of triples.   *)
(***************************************************************************)
URIRef(ns, v) == [t |-> "uri", ns |-> ns, v |-> v]

Literal(v, datatype) == [t |-> "lit", ns |-> datatype, v |-> v]

\* common_earliest_year is None
None == -1

(***************************************************************************)
(* map_date_to_ontology (transform.py lines 175-228): [uri, graph], uri    *)
(* being NoUri for the None result                                         *)
(***************************************************************************)
NoUri == [t |-> "none", ns |-> "", v |-> <<>>]

\* the time entity of class cls, its value under property p, on the graph
TimeEntity(graph, date_uri, cls, values) ==
    [uri |-> date_uri,
     graph |-> graph \cup {<<date_uri, "rdf:type", URIRef(cls, <<>>)>>} \cup values]

\* lines 205-224: the branch on the length of the text, parts being
\* date_str.split('-')
DateEntity(date_str, graph, parts) ==
    IF Len(date_str) = 4
    THEN TimeEntity(graph, URIRef("time:Year/", date_str), "time:Year",
                    {<<URIRef("time:Year/", date_str), "time:year",
                       Literal(date_str, "xsd:gYear")>>})
    ELSE IF Len(date_str) = 7
    THEN TimeEntity(graph, URIRef("time:YearMonth/", date_str), "time:YearMonth",
                    {<<URIRef("time:YearMonth/", date_str), "time:yearMonth",
                       Literal(date_str, "xsd:gYearMonth")>>})
    ELSE IF Len(date_str) = 10
    THEN TimeEntity(graph, URIRef("time:FullDate/", date_str), "time:FullDate",
                    {<<URIRef("time:FullDate/", date_str), "time:date",
                       Literal(date_str, "xsd:date")>>})
    ELSE IF Len(date_str) = 9
    THEN IF Len(parts) # 2 THEN [uri |-> NoUri, graph |-> graph]
         ELSE TimeEntity(graph, URIRef("time:AcademicYear/", date_str), "time:AcademicYear",
                         {<<URIRef("time:AcademicYear/", date_str), "time:startYear",
                            Literal(parts[1], "xsd:gYear")>>,
                          <<URIRef("time:AcademicYear/", date_str), "time:endYear",
                            Literal(parts[2], "xsd:gYear")>>})
    ELSE [uri |-> NoUri, graph |-> graph]

\* lines 200-203 for the converted year, then the branch on the length
DateOfYear(date_str, graph, common_earliest_year, year) ==
    IF year.tag # "ok" THEN [uri |-> NoUri, graph |-> graph]
    ELSE IF year.val < common_earliest_year THEN [uri |-> NoUri, graph |-> graph]
    ELSE DateEntity(date_str, graph, SplitDash(date_str, <<>>))

map_date_to_ontology(date_str, graph, common_earliest_year) ==
    IF date_str = <<>> THEN [uri |-> NoUri, graph |-> graph]
    ELSE DateOfYear(date_str, graph, common_earliest_year, PyInt(BeforeDash(date_str)))

(***************************************************************************)
(* Locations (transform.py lines 230-271)                                  *)
(***************************************************************************)
\* the reference list of valid location names (config/valid_locations.yaml),
\* here two names
valid_locations == << <<"L", "e", "e", "d", "s">>, <<"Y", "o", "r", "k">> >>

\* needle in hay
Contains(hay, needle) ==
    \E i \in 1..(Len(hay) - Len(needle) + 1) : SubSeq(hay, i, i + Len(needle) - 1) = needle

clean_location_name(location_name) ==
    IF Len(location_name) >= 3 /\ SubSeq(location_name, Len(location_name) - 2, Len(location_name)) = <<" ", "u", "a">>
    THEN Slice(location_name, 1, Len(location_name) - 3)
    ELSE location_name

\* the first valid location contained in the name, or NaN for None
FirstValid(hits) ==
    IF hits = {} THEN NaN
    ELSE valid_locations[CHOOSE i \in hits : \A j \in hits : i <= j]

validate_location(location_name) ==
    FirstValid({i \in 1..Len(valid_locations) :
                    Contains(LowerStr(location_name), LowerStr(valid_locations[i]))})

(***************************************************************************)
(* sanitize_uri (transform.py lines 294-317)                               *)
(***************************************************************************)
\* \w of a str pattern for the characters of the model: letters, digits, "_"
IsWordChar(c) ==
    \/ IsDigit(c) \/ c = "_"
    \/ \E i \in 1..26 : LowerChars[i] = c \/ UpperChars[i] = c

\* [tag, val]: IndexError on the empty text (value[0])
\* lines 314-315 left out
NoLeadingUnderscore(replaced) ==
    IF replaced = <<>> THEN Exc("IndexError") ELSE Ok(replaced)

LeadingUnderscore(replaced) ==
    IF replaced = <<>> THEN Exc("IndexError")
    ELSE IF IsDigit(replaced[1]) THEN Ok(<<"_">> \o replaced)
    ELSE Ok(replaced)

sanitize_uri(value) ==
    LeadingUnderscore([i \in 1..Len(value) |->
                          IF IsWordChar(value[i]) \/ value[i] = "-" THEN value[i] ELSE "_"])

(***************************************************************************)
(* MAPPINGS (ontology_config.py lines 143-211)                             *)
(***************************************************************************)
\* one entry of a mapping's 'fields', with the keys it may carry
Field(name, property, datatype) ==
    [field |-> name, property |-> property, datatype |-> datatype,
     has_valid_values |-> FALSE, valid_values |-> {},
     has_mapping |-> FALSE, mapping |-> {},
     object |-> FALSE, class |-> ""]

Mapped(f, pairs, valid) ==
    [f EXCEPT !.has_mapping = TRUE, !.mapping = pairs,
              !.has_valid_values = TRUE, !.valid_values = valid]

MAPPINGS ==
    [ price_paid |->
        [class |-> "prop:Property", class_name |-> "Property",
         uri_pattern |-> [ns |-> "prop:Property/", key |-> "transaction_id"],
         date_format |-> OneFormat(DATE_FORMATS.YYYY_MM_DD),
         fields |-> <<
            Field("transaction_id", "prop:transactionId", "xsd:string"),
            Field("price", "prop:price", "xsd:integer"),
            Field("date", "time:date", "xsd:dateTime"),
            Field("postcode", "prop:postcode", "xsd:string"),
            Mapped(Field("property_type", "prop:propertyType", "xsd:string"),
                   {<<<<"d">>, <<"detached">>>>, <<<<"s">>, <<"semi-detached">>>>, <<<<"t">>, <<"terraced">>>>,
                    <<<<"f">>, <<"flats/maisonettes">>>>, <<<<"o">>, <<"other">>>>},
                   {<<"d">>, <<"s">>, <<"t">>, <<"f">>, <<"o">>}),
            Mapped(Field("old_new", "prop:oldNew", "xsd:string"),
                   {<<<<"y">>, <<"newly built">>>>, <<<<"n">>, <<"established residential building">>>>},
                   {<<"y">>, <<"n">>}),
            Mapped(Field("freehold_leasehold", "prop:tenure", "xsd:string"),
                   {<<<<"f">>, <<"freehold">>>>, <<<<"l">>, <<"leasehold">>>>},
                   {<<"f">>, <<"l">>}),
            Mapped(Field("transaction_category", "prop:transactionCategory", "xsd:string"),
                   {<<<<"a">>, <<"standard transaction">>>>, <<<<"b">>, <<"non-standard transaction">>>>},
                   {<<"a">>, <<"b">>}),
            [Field("transaction_status", "prop:transactionStatus", "xsd:string")
                EXCEPT !.has_valid_values = TRUE, !.valid_values = {<<"a">>, <<"c">>}],
            Field("address_1", "prop:address1", "xsd:string"),
            Field("address_2", "prop:address2", "xsd:string"),
            [Field("location_name", "prop:hasLocation", "")
                EXCEPT !.object = TRUE, !.class = "loc:Location"] >>],
      additional_dwellings |->
        [class |-> "house:HousingMarketIndicator", class_name |-> "HousingMarketIndicator",
         uri_pattern |-> [ns |-> "house:HousingMarketIndicator/", key |-> "unique_id"],
         date_format |-> OneFormat(DATE_FORMATS.YYYY),
         fields |-> <<
            Field("location_name", "prop:hasLocation", "xsd:string"),
            Field("date", "time:date", "xsd:gYear"),
            Field("additional_dwellings", "house:additionalDwellings", "xsd:decimal") >>],
      boe_rate |->
        [class |-> "econ:NationalEconomicIndicator", class_name |-> "NationalEconomicIndicator",
         uri_pattern |-> [ns |-> "econ:NationalEconomicIndicator/", key |-> "unique_id"],
         date_format |-> OneFormat(DATE_FORMATS.DD_MMM_YY),
         fields |-> <<
            Field("date", "time:date", "xsd:date"),
            Field("rate", "econ:rate", "xsd:decimal") >>],
      mortgage_rate |->
        [class |-> "econ:LocalEconomicIndicator", class_name |-> "LocalEconomicIndicator",
         uri_pattern |-> [ns |-> "econ:LocalEconomicIndicator/", key |-> "unique_id"],
         date_format |-> OneFormat(DATE_FORMATS.YYYY_MM),
         fields |-> <<
            Field("rate_type", "econ:rateType", "xsd:string"),
            Field("date", "time:date", "xsd:gYearMonth"),
            Field("rate", "econ:rate", "xsd:decimal") >>],
      school_count |->
        [class |-> "house:HousingMarketIndicator", class_name |-> "HousingMarketIndicator",
         uri_pattern |-> [ns |-> "house:HousingMarketIndicator/", key |-> "unique_id"],
         date_format |-> OneFormat(DATE_FORMATS.ACADEMIC_YEAR),
         fields |-> <<
            Field("date", "time:date", "xsd:gYear"),
            Field("location_name", "prop:hasLocation", "xsd:string"),
            Field("school_count", "house:schoolCount", "xsd:integer") >>],
      unemployment |->
        [class |-> "econ:NationalEconomicIndicator", class_name |-> "NationalEconomicIndicator",
         uri_pattern |-> [ns |-> "econ:NationalEconomicIndicator/", key |-> "unique_id"],
         date_format |-> FormatList(<<DATE_FORMATS.YYYY, DATE_FORMATS.YYYY_MMM, DATE_FORMATS.YYYY_Q>>),
         fields |-> <<
            Field("date", "time:date", "xsd:gYear"),
            Field("unemployment_rate", "econ:unemploymentRate", "xsd:decimal") >>] ]

\* mappings.get(source_name) is not None
HasMapping(source_name) == source_name \in DOMAIN MAPPINGS

(***************************************************************************)
(* transform_row_to_rdf (transform.py lines 319-410)                       *)
(***************************************************************************)
\* an entry of summary['errors']
ErrorMsg(msg, field, value) == [msg |-> msg, field |-> field, value |-> value]

\* text.replace(c, '')
RECURSIVE RemoveChar(_, _)
RemoveChar(s, c) ==
    IF s = <<>> THEN <<>>
    ELSE IF Head(s) = c THEN RemoveChar(Tail(s), c)
         ELSE <<Head(s)>> \o RemoveChar(Tail(s), c)

\* line 292 with one identifier for every row
FixedIdentifier(uuid, prefix) == <<prefix, "_">> \o NatToStr(0)

\* generate_unique_identifier: prefix, "_" and a fresh identifier; uuid is the
\* number of the identifier drawn
generate_unique_identifier(uuid, prefix) == <<prefix, "_">> \o NatToStr(uuid)

MappedValue(details, original_value) ==
    (CHOOSE pr \in details.mapping : pr[1] = original_value)[2]

\* return False after both summary['skipped_dates'].add(value) and an
\* append to summary['errors']
SkippedAndError(graph, summary, value) ==
    [ok |-> FALSE, graph |-> graph,
     summary |-> [summary EXCEPT !.skipped_dates = @ \cup {value},
                                 !.errors = Append(@, ErrorMsg("Invalid date", "date", value))]]

\* return False after summary['skipped_dates'].add(value)
Skipped(graph, summary, value) ==
    [ok |-> FALSE, graph |-> graph,
     summary |-> [summary EXCEPT !.skipped_dates = @ \cup {value}]]

\* return False after summary['errors'].append(m)
Failed(graph, summary, m) ==
    [ok |-> FALSE, graph |-> graph,
     summary |-> [summary EXCEPT !.errors = Append(@, m)]]

\* lines 382-386: the link to the time entity md, or the skipped date
DateLink(value, details, entity_uri, summary, md) ==
    IF md.uri # NoUri
    THEN [ok |-> TRUE,
          graph |-> md.graph \cup {<<entity_uri, details.property, md.uri>>},
          summary |-> summary]
    ELSE Skipped(md.graph, summary, value)

\* lines 380-389 without the comparisons with the common earliest year
DateOfParsedYearUnchecked(value, details, entity_uri, graph, common_earliest_year, summary, parsed_date, year) ==
    IF year.tag # "ok" THEN Failed(graph, summary, ErrorMsg(year.tag, "", <<>>))
    ELSE DateLink(value, details, entity_uri, summary,
                  DateEntity(parsed_date, graph, SplitDash(parsed_date, <<>>)))

\* lines 380-389 for the converted year of the parsed date
DateOfParsedYear(value, details, entity_uri, graph, common_earliest_year, summary, parsed_date, year) ==
    IF year.tag # "ok" THEN Failed(graph, summary, ErrorMsg(year.tag, "", <<>>))
    ELSE IF year.val >= common_earliest_year
    THEN DateLink(value, details, entity_uri, summary,
                  map_date_to_ontology(parsed_date, graph, common_earliest_year))
    ELSE Skipped(graph, summary, value)

\* lines 378-392 for the outcome of parse_date
DateOfParsed(value, details, entity_uri, graph, common_earliest_year, summary, parsed_date) ==
    IF parsed_date.tag \notin {"ok", "none"}
    THEN Failed(graph, summary, ErrorMsg(parsed_date.tag, "", <<>>))
    ELSE IF parsed_date.tag = "none" \/ parsed_date.val = <<>>
    THEN Skipped(graph, summary, value)
    ELSE DateOfParsedYear(value, details, entity_uri, graph, common_earliest_year, summary,
                          parsed_date.val, PyInt(BeforeDash(parsed_date.val)))

\* the date branch of the field loop (lines 376-392) for one value
DateField(value, details, mapping, entity_uri, graph, common_earliest_year, summary) ==
    DateOfParsed(value, details, entity_uri, graph, common_earliest_year, summary,
                 parse_date(value, mapping.date_format))

\* lines 395-398 for the sanitised value
ObjectField(details, entity_uri, graph, summary, sanitized_value) ==
    IF sanitized_value.tag # "ok"
    THEN Failed(graph, summary, ErrorMsg(sanitized_value.tag, "", <<>>))
    ELSE [ok |-> TRUE,
          graph |-> graph \cup
              {<<entity_uri, details.property,
                 URIRef(details.class, <<"/">> \o sanitized_value.val)>>,
               <<URIRef(details.class, <<"/">> \o sanitized_value.val), "rdf:type",
                 URIRef(details.class, <<>>)>>},
          summary |-> summary]

\* lines 376-405 for the value after the value mapping
FieldValue(value, details, mapping, entity_uri, graph, common_earliest_year, summary) ==
    IF details.field = "date"
    THEN DateField(value, details, mapping, entity_uri, graph, common_earliest_year, summary)
    ELSE IF details.object
    THEN ObjectField(details, entity_uri, graph, summary, sanitize_uri(Str(value)))
    ELSE [ok |-> TRUE,
          graph |-> graph \cup {<<entity_uri, details.property,
                                  Literal(value, IF details.datatype # "" THEN details.datatype
                                                 ELSE "xsd:string")>>},
          summary |-> summary]

\* lines 358-405 without the valid_values check of lines 361-363
PresentFieldUnvalidated(original_value, details, mapping, entity_uri, graph, common_earliest_year, summary) ==
    IF details.has_mapping /\ original_value \notin {pr[1] : pr \in details.mapping}
    THEN Failed(graph, summary, ErrorMsg("No mapping found", details.field, original_value))
    ELSE FieldValue(IF details.has_mapping THEN MappedValue(details, original_value)
                    ELSE original_value,
                    details, mapping, entity_uri, graph, common_earliest_year, summary)

\* lines 358-405 for a value that is present
PresentField(original_value, details, mapping, entity_uri, graph, common_earliest_year, summary) ==
    IF details.has_valid_values /\ original_value \notin details.valid_values
    THEN Failed(graph, summary, ErrorMsg("Invalid value", details.field, original_value))
    ELSE IF details.has_mapping /\ original_value \notin {pr[1] : pr \in details.mapping}
    THEN Failed(graph, summary, ErrorMsg("No mapping found", details.field, original_value))
    ELSE FieldValue(IF details.has_mapping THEN MappedValue(details, original_value)
                    ELSE original_value,
                    details, mapping, entity_uri, graph, common_earliest_year, summary)

\* one pass of the loop over mapping['fields'] for the field `details`:
\* [ok, graph, summary], ok FALSE when the row returns False at this field
OneField(row, details, mapping, entity_uri, graph, common_earliest_year, summary) ==
    IF ~(details.field \in DOMAIN row /\ ~IsNa(row[details.field]))
    THEN [ok |-> TRUE, graph |-> graph, summary |-> summary]
    ELSE PresentField(row[details.field], details, mapping, entity_uri, graph,
                      common_earliest_year, summary)

RECURSIVE FieldLoop(_, _, _, _, _, _)
RECURSIVE NextField(_, _, _, _, _, _)
\* the loop goes on from the outcome r of a field unless the row returned
NextField(row, fields, mapping, entity_uri, common_earliest_year, r) ==
    IF r.ok
    THEN FieldLoop(row, fields, mapping, entity_uri, common_earliest_year, r)
    ELSE r

\* the loop over mapping['fields'] from the state st = [ok, graph, summary]
FieldLoop(row, fields, mapping, entity_uri, common_earliest_year, st) ==
    IF fields = <<>> THEN st
    ELSE NextField(row, Tail(fields), mapping, entity_uri, common_earliest_year,
                   OneField(row, Head(fields), mapping, entity_uri, st.graph,
                            common_earliest_year, st.summary))

\* the outcome r of a row with the graph as it was before the row when the
\* row failed
RolledBack(r, graph) == IF r.ok THEN r ELSE [r EXCEPT !.graph = graph]

\* lines 353-407 with the triples of a failed row taken out again
RowOfEntityAtomic(row, mapping, graph, common_earliest_year, summary, entity_uri) ==
    RolledBack(FieldLoop(row, mapping.fields, mapping, entity_uri, common_earliest_year,
                         [ok |-> TRUE,
                          graph |-> graph \cup {<<entity_uri, "rdf:type", URIRef(mapping.class, <<>>)>>},
                          summary |-> summary]),
               graph)

\* lines 353-407 for the entity URI
RowOfEntity(row, mapping, graph, common_earliest_year, summary, entity_uri) ==
    FieldLoop(row, mapping.fields, mapping, entity_uri, common_earliest_year,
              [ok |-> TRUE,
               graph |-> graph \cup {<<entity_uri, "rdf:type", URIRef(mapping.class, <<>>)>>},
               summary |-> summary])

\* lines 345-350: the entity URI from the transaction id or a fresh identifier
EntityUri(row, mapping, uuid) ==
    URIRef(mapping.uri_pattern.ns,
           IF "transaction_id" \in DOMAIN row
           THEN RemoveChar(RemoveChar(Str(row["transaction_id"]), "{"), "}")
           ELSE generate_unique_identifier(uuid, mapping.class_name))

\* transform_row_to_rdf(row, mapping, graph, common_earliest_year, summary),
\* with the identifier uuid4 would draw: [ok, graph, summary]
transform_row_to_rdf(row, mapping, graph, common_earliest_year, summary, uuid) ==
    IF mapping.uri_pattern.key #
           (IF "transaction_id" \in DOMAIN row THEN "transaction_id" ELSE "unique_id")
    THEN Failed(graph, summary, ErrorMsg("KeyError", "", <<>>))
    ELSE RowOfEntity(row, mapping, graph, common_earliest_year, summary,
                     EntityUri(row, mapping, uuid))

(***************************************************************************)
(* Bounds and inputs of the model                                          *)
(***************************************************************************)
\* rows of a processed file, at most
MaxFileRows == 2

\* rows of all processed files together, at most
MaxTotalRows == 3

\* rows per chunk of a large file (DataLoader.CHUNK_SIZE, scaled down)
ChunkSize == 1

\* runs of main, at most: a crashed run is started again from scratch
MaxRuns == 2

\* chunks of the large file of the long run, at most
MaxChunks == 12

\* characters of a text sanitize_uri and validate_location are called on,
\* at most, the named examples apart
MaxTextLen == 3

\* rows of the processed files, per source, with the columns the source has
SampleRows(source_name) ==
    CASE source_name = "price_paid" ->
           { [transaction_id |-> <<"{", "A", "1", "}">>,
              date |-> <<"2", "0", "0", "5", "-", "0", "3", "-", "0", "1">>,
              location_name |-> <<"L", "E", "E", "D", "S">>],
             [transaction_id |-> <<"{", "B", "2", "}">>,
              date |-> <<"2", "0", "1", "2", "-", "0", "6", "-", "1", "5">>,
              location_name |-> <<"Y", "o", "r", "k">>] }
      [] source_name = "additional_dwellings" ->
           { [location_name |-> <<"L", "e", "e", "d", "s", " ", "u", "a">>,
              date |-> <<"2", "0", "1", "0">>,
              additional_dwellings |-> <<"7">>],
             [location_name |-> <<"N", "o", "w", "h", "e", "r", "e">>,
              date |-> <<"1", "9", "9", "5">>,
              additional_dwellings |-> <<"3">>] }
      [] source_name = "unemployment" ->
           { [date |-> <<"1", "9", "9", "5">>, unemployment_rate |-> <<"5">>],
             [date |-> <<"2", "0", "1", "9", " ", "Q", "3">>, unemployment_rate |-> <<"4">>],
             [date |-> <<"2", "0", "1", "9", " ", "Q", "5">>, unemployment_rate |-> <<"4">>] }
      [] OTHER ->
           { [date |-> <<"2", "0", "0", "0">>] }

\* the source lists of data_sources.yaml the model runs; "no_mapping" is a
\* source the configuration lists and MAPPINGS does not
SourceLists ==
    { <<"price_paid", "additional_dwellings", "unemployment">>,
      <<"no_mapping", "unemployment">>,
      <<"unemployment", "no_mapping">> }

SeqsUpTo(S, n) == UNION {[1..k -> S] : k \in 0..n}

\* a processed file: its rows, and whether its size is over
\* LARGE_FILE_THRESHOLD (a file that large has more rows than one chunk)
Files(source_name) ==
    {[large |-> FALSE, rows |-> r] : r \in SeqsUpTo(SampleRows(source_name), MaxFileRows)}
    \cup {[large |-> TRUE, rows |-> r] :
             r \in {q \in SeqsUpTo(SampleRows(source_name), MaxFileRows) : Len(q) > ChunkSize}}

(***************************************************************************)
(* DataLoader.get_chunked_data (data_loader.py lines 237-266)              *)
(***************************************************************************)
RECURSIVE ChunksOf(_)
ChunksOf(rows) ==
    IF Len(rows) <= ChunkSize THEN <<rows>>
    ELSE <<SubSeq(rows, 1, ChunkSize)>> \o ChunksOf(SubSeq(rows, ChunkSize + 1, Len(rows)))

get_chunked_data(file) == IF file.large THEN ChunksOf(file.rows) ELSE <<file.rows>>

(***************************************************************************)
(* extract_earliest_year and find_common_earliest_year (lines 116-173)     *)
(***************************************************************************)
SetMin(S) == CHOOSE x \in S : \A y \in S : x <= y

SetMax(S) == CHOOSE x \in S : \A y \in S : x >= y

\* the parsed date of every row, as line 141 computes it
ParsedDates(source_name, file) ==
    [i \in 1..Len(file.rows) |-> parse_date(Str(file.rows[i].date), MAPPINGS[source_name].date_format)]

\* line 142 for one parsed date: int(x.split('-')[0]) if x else None
YearOf(x) ==
    IF x.tag = "ok" /\ x.val # <<>> THEN PyInt(BeforeDash(x.val))
    ELSE [tag |-> "none", val |-> 0]

\* lines 145-146: the minimum of the years that are not None
MinYear(found) == IF found = {} THEN None ELSE SetMin(found)

\* lines 142-149 on the converted years: an exception gives None
EarliestOfYears(years) ==
    IF \E i \in 1..Len(years) : years[i].tag \notin {"ok", "none"} THEN None
    ELSE MinYear({years[i].val : i \in {j \in 1..Len(years) : years[j].tag = "ok"}})

\* lines 141-149 on the parsed dates: an exception gives None
EarliestOfParsed(parsed) ==
    IF \E i \in 1..Len(parsed) : parsed[i].tag \notin {"ok", "none"} THEN None
    ELSE EarliestOfYears([i \in 1..Len(parsed) |-> YearOf(parsed[i])])

\* the earliest year of a source, or None; any exception inside the try
\* block (a row whose date raises, a source without mapping) gives None
extract_earliest_year(source_name, file) ==
    IF file.rows = <<>> THEN None
    ELSE IF ~HasMapping(source_name) THEN None
    ELSE EarliestOfParsed(ParsedDates(source_name, file))

\* line 173 with min for max
MinOrNone(earliest_years) ==
    IF earliest_years # {} THEN SetMin(earliest_years) ELSE None

\* line 173
MaxOrNone(earliest_years) ==
    IF earliest_years # {} THEN SetMax(earliest_years) ELSE None

find_common_earliest_year(source_names, files) ==
    MaxOrNone({extract_earliest_year(source_names[i], files[source_names[i]]) :
                  i \in 1..Len(source_names)} \ {None})

(***************************************************************************)
(* State                                                                   *)
(***************************************************************************)
VARIABLES
    source_names,          \* data_loader.get_source_names()
    processed,             \* data/processed: source name -> processed file
    pc,                    \* where main is: start, load, chunks, combine, summary,
                           \* done, aborted (no watermark), crashed (exception left main)
    run,                   \* number of the run of main
    common_earliest_year,  \* main's local, None before it is found
    src,                   \* index in source_names of the source being processed
    chunk_number,          \* number of the next chunk of the source
    summary,               \* the summary of the source being processed
    intermediate,          \* data/intermediate: chunk number -> graph of the chunk file
    transformed,           \* data/transformed: source name -> graph of its output file
    ontology,              \* populated_real_estate_ontology.ttl: << >> or <<graph>>
    uuid,                  \* identifiers drawn so far by uuid4
    exc,                   \* the exception that left main, "" if none
    printed,               \* the summaries main printed in this run, in order
    built,                 \* union of the chunk graphs this run saved for the source
    written,               \* this run: [chunks |-> chunk files saved, outputs |-> sources merged]
    mapped,                \* this run: the [source, row] counted in mapped_rows
    call                   \* one call of parse_date and of the row mapper on a drawn
                           \* value: [value, source, watermark, parsed, returned,
                           \* transformed, row], NoCall while main runs

vars == <<source_names, processed, pc, run, common_earliest_year, src, chunk_number,
          summary, intermediate, transformed, ontology, uuid, exc, printed, built,
          written, mapped, call>>

NewSummary ==
    [total_rows |-> 0, mapped_rows |-> 0, skipped_dates |-> {},
     invalid_locations |-> {}, errors |-> <<>>]

NoFiles == [n \in {} |-> {}]

NothingWritten == [chunks |-> 0, outputs |-> {}]

\* what parse_date and the row mapper have returned before they are called
NotReturned == [tag |-> "pending", val |-> <<>>]

NoRow == [ok |-> FALSE, graph |-> {}, summary |-> NewSummary]

NoCall ==
    [value |-> <<>>, source |-> "", watermark |-> 0, parsed |-> FALSE,
     returned |-> NotReturned, transformed |-> FALSE, row |-> NoRow,
     reparsed |-> FALSE, again |-> NotReturned,
     sanitized |-> FALSE, uri |-> NotReturned,
     validated |-> FALSE, location |-> <<>>, graph |-> {}]

\* the contents data/processed may have for the sources: a file per source,
\* with at most `budget` rows in all
RECURSIVE FileMaps(_, _)
FileMaps(names, budget) ==
    IF names = <<>> THEN {NoFiles}
    ELSE UNION {{[s \in DOMAIN m \cup {Head(names)} |-> IF s = Head(names) THEN f ELSE m[s]] :
                    m \in FileMaps(Tail(names), budget - Len(f.rows))} :
                f \in {g \in Files(Head(names)) : Len(g.rows) <= budget}}

Init ==
    /\ source_names \in SourceLists
    /\ processed \in FileMaps(source_names, MaxTotalRows)
    /\ pc = "start"
    /\ run = 1
    /\ common_earliest_year = None
    /\ src = 0
    /\ chunk_number = 0
    /\ summary = NewSummary
    /\ intermediate = NoFiles
    /\ transformed = NoFiles
    /\ ontology = <<>>
    /\ uuid = 0
    /\ exc = ""
    /\ printed = <<>>
    /\ built = {}
    /\ written = NothingWritten
    /\ mapped = {}
    /\ call = NoCall

Source == source_names[src]

\* lines 555-562 without the return at line 560
MainStartNoAbort ==
    /\ pc = "start"
    /\ common_earliest_year' = find_common_earliest_year(source_names, processed)
    /\ pc' = "load"
    /\ src' = 1
    /\ UNCHANGED <<source_names, processed, run, chunk_number, summary, intermediate,
                   transformed, ontology, uuid, exc, printed, built, written, mapped,
                   call>>

(***************************************************************************)
(* main, lines 555-562: the watermark, or the end of the run without one   *)
(***************************************************************************)
MainStart ==
    /\ pc = "start"
    /\ common_earliest_year' = find_common_earliest_year(source_names, processed)
    /\ IF common_earliest_year' = None
       THEN pc' = "aborted" /\ src' = src
       ELSE pc' = "load" /\ src' = 1
    /\ UNCHANGED <<source_names, processed, run, chunk_number, summary, intermediate,
                   transformed, ontology, uuid, exc, printed, built, written, mapped,
                   call>>

(***************************************************************************)
(* load_and_transform_data (lines 433-501)                                 *)
(***************************************************************************)
\* lines 454-472: the summary is created; a source without mapping returns
\* it with the error
LoadStart ==
    /\ pc = "load"
    /\ chunk_number' = 0
    /\ built' = {}
    /\ IF HasMapping(Source)
       THEN /\ summary' = NewSummary
            /\ pc' = "chunks"
       ELSE /\ summary' = [NewSummary EXCEPT !.errors =
                              <<ErrorMsg("No mapping configuration found", Source, <<>>)>>]
            /\ pc' = "combine"
    /\ UNCHANGED <<source_names, processed, run, common_earliest_year, src, intermediate,
                   transformed, ontology, uuid, exc, printed, written, mapped,
                   call>>

\* line 482 for one row: the valid location of the cleaned name, or NaN
ValidLocation(row) == validate_location(clean_location_name(row.location_name))

\* lines 483-488: the rows whose valid location is not null, location_name
\* replaced by it; located[i] is the valid location of row i
DropNa(chunk, located) ==
    [i \in 1..Len(SelectSeq(located, LAMBDA v : ~IsNa(v))) |->
        [chunk[CHOOSE k \in 1..Len(chunk) :
                  /\ ~IsNa(located[k])
                  /\ Cardinality({j \in 1..k : ~IsNa(located[j])}) = i]
            EXCEPT !.location_name =
                located[CHOOSE k \in 1..Len(chunk) :
                           /\ ~IsNa(located[k])
                           /\ Cardinality({j \in 1..k : ~IsNa(located[j])}) = i]]]

\* lines 481-488 without the dropna of line 483
LocationUnfiltered(chunk) == chunk

\* lines 481-488: the rows with a valid location, location_name replaced by
\* the valid name
LocationFiltered(chunk) ==
    DropNa(chunk, [i \in 1..Len(chunk) |-> ValidLocation(chunk[i])])

RECURSIVE RowLoop(_, _, _, _, _)
\* lines 493-495 with the loop over the rows left at the first row for
\* which transform_row_to_rdf returned False
RowDoneStopAtFailure(rows, source_name, mapping, cey, st, row, r) ==
    IF r.ok
    THEN RowLoop(rows, source_name, mapping, cey,
                 [graph |-> r.graph,
                  summary |-> [r.summary EXCEPT !.mapped_rows = @ + 1],
                  uuid |-> IF "transaction_id" \in DOMAIN row THEN st.uuid ELSE st.uuid + 1,
                  mapped |-> st.mapped \cup {[source |-> source_name, row |-> row]}])
    ELSE [graph |-> r.graph, summary |-> r.summary,
          uuid |-> IF "transaction_id" \in DOMAIN row THEN st.uuid ELSE st.uuid + 1,
          mapped |-> st.mapped]

\* lines 493-495 after transform_row_to_rdf returned r for the row
RowDone(rows, source_name, mapping, cey, st, row, r) ==
    RowLoop(rows, source_name, mapping, cey,
            [graph |-> r.graph,
             summary |-> IF r.ok THEN [r.summary EXCEPT !.mapped_rows = @ + 1]
                         ELSE r.summary,
             uuid |-> IF "transaction_id" \in DOMAIN row THEN st.uuid ELSE st.uuid + 1,
             mapped |-> IF r.ok THEN st.mapped \cup {[source |-> source_name, row |-> row]}
                        ELSE st.mapped])

\* lines 492-495: every row of the chunk in order; st is
\* [graph, summary, uuid, mapped]
RowLoop(rows, source_name, mapping, cey, st) ==
    IF rows = <<>> THEN st
    ELSE RowDone(Tail(rows), source_name, mapping, cey, st, Head(rows),
                 transform_row_to_rdf(Head(rows), mapping, st.graph, cey,
                                      [st.summary EXCEPT !.total_rows = @ + 1], st.uuid))

\* save_graph_to_disk (lines 412-431) of the chunk graph of st, with the
\* summary and the identifiers the rows of the chunk left
SaveChunk(st) ==
    /\ summary' = st.summary
    /\ uuid' = st.uuid
    /\ mapped' = st.mapped
    /\ intermediate' = [n \in DOMAIN intermediate \cup {chunk_number} |->
                           IF n = chunk_number THEN st.graph ELSE intermediate[n]]
    /\ built' = built \cup st.graph
    /\ written' = [written EXCEPT !.chunks = @ + 1]

\* lines 475-497 without the two continue statements of lines 476-478 and
\* 484-486
ChunkRowsAlwaysSaved(mapping, chunk, processed_chunk) ==
    SaveChunk(RowLoop(processed_chunk, Source, mapping, common_earliest_year,
                      [graph |-> {}, summary |-> summary, uuid |-> uuid,
                       mapped |-> mapped]))

\* lines 475-497 for a chunk and its rows after the location filter
ChunkRows(mapping, chunk, processed_chunk) ==
    IF chunk = <<>> \/ processed_chunk = <<>>
    THEN UNCHANGED <<summary, intermediate, uuid, built, written, mapped>>
    ELSE SaveChunk(RowLoop(processed_chunk, Source, mapping, common_earliest_year,
                           [graph |-> {}, summary |-> summary, uuid |-> uuid,
                            mapped |-> mapped]))

\* line 472
HasLocation(mapping) ==
    \E i \in 1..Len(mapping.fields) : mapping.fields[i].field = "location_name"

\* lines 474-498 for the chunk at chunk_number of the chunks of the file
ChunkAt(mapping, chunks) ==
    /\ ChunkRows(mapping, chunks[chunk_number + 1],
                 IF HasLocation(mapping) THEN LocationFiltered(chunks[chunk_number + 1])
                 ELSE chunks[chunk_number + 1])
    /\ chunk_number' = chunk_number + 1
    /\ pc' = IF chunk_number + 1 = Len(chunks) THEN "combine" ELSE "chunks"

\* lines 474-498 for one chunk: an empty chunk and a chunk without a valid
\* location are skipped, any other chunk is mapped row by row and saved
\* under its chunk number
TransformChunk ==
    /\ pc = "chunks"
    /\ ChunkAt(MAPPINGS[Source], get_chunked_data(processed[Source]))
    /\ UNCHANGED <<source_names, processed, run, common_earliest_year, src, transformed,
                   ontology, exc, printed,
                   call>>

(***************************************************************************)
(* combine_ttl_files (lines 503-539)                                       *)
(***************************************************************************)
\* order of two texts that differ: at the first position where they differ,
\* "." sorts before every digit
TextBefore(sa, sb) ==
    (IF sa[CHOOSE i \in 1..Len(sa) :
              i <= Len(sb) /\ sa[i] # sb[i] /\ \A j \in 1..(i - 1) : sa[j] = sb[j]] = "."
     THEN 0 - 1
     ELSE DigitVal(sa[CHOOSE i \in 1..Len(sa) :
              i <= Len(sb) /\ sa[i] # sb[i] /\ \A j \in 1..(i - 1) : sa[j] = sb[j]]))
    < (IF sb[CHOOSE i \in 1..Len(sa) :
              i <= Len(sb) /\ sa[i] # sb[i] /\ \A j \in 1..(i - 1) : sa[j] = sb[j]] = "."
       THEN 0 - 1
       ELSE DigitVal(sb[CHOOSE i \in 1..Len(sa) :
              i <= Len(sb) /\ sa[i] # sb[i] /\ \A j \in 1..(i - 1) : sa[j] = sb[j]]))

\* order of two chunk files by name, "transformed_data_chunk_<n>.ttl": the
\* names differ first inside <n> or where one number ends
NameBefore(a, b) ==
    a # b /\ TextBefore(NatToStr(a) \o <<".">>, NatToStr(b) \o <<".">>)

RECURSIVE SortedChunks(_)
FirstThen(first, numbers) == <<first>> \o SortedChunks(numbers \ {first})

\* sorted(Path(intermediate_dir).glob("transformed_data_chunk_*.ttl")), as
\* the chunk numbers of the files
SortedChunks(numbers) ==
    IF numbers = {} THEN <<>>
    ELSE FirstThen(CHOOSE n \in numbers : \A m \in numbers \ {n} : NameBefore(n, m), numbers)

\* lines 521-529 with = for +=: the graph of the last file read
CombineGraphsAssign(combined_graph, graphs) ==
    IF graphs = <<>> THEN combined_graph ELSE graphs[Len(graphs)]

\* lines 521-529: combined_graph += Graph().parse(chunk_file), file by file
RECURSIVE CombineGraphs(_, _)
CombineGraphs(combined_graph, graphs) ==
    IF graphs = <<>> THEN combined_graph
    ELSE CombineGraphs(combined_graph \cup Head(graphs), Tail(graphs))

\* line 523
ChunkFiles == SortedChunks(DOMAIN intermediate)

\* lines 527-535 without the unlink of lines 537-539
CombineFilesKept(chunk_files) ==
    /\ chunk_files # <<>>
    /\ transformed' = [s \in DOMAIN transformed \cup {Source} |->
                          IF s = Source
                          THEN CombineGraphs({}, [i \in 1..Len(chunk_files) |->
                                                     intermediate[chunk_files[i]]])
                          ELSE transformed[s]]
    /\ intermediate' = intermediate
    /\ written' = [written EXCEPT !.outputs = @ \cup {Source}]
    /\ pc' = "summary"

\* lines 527-539 for the chunk files found: every chunk file is read, the
\* union is serialised as the source's output and the chunk files are deleted
CombineFiles(chunk_files) ==
    /\ chunk_files # <<>>
    /\ transformed' = [s \in DOMAIN transformed \cup {Source} |->
                          IF s = Source
                          THEN CombineGraphs({}, [i \in 1..Len(chunk_files) |->
                                                     intermediate[chunk_files[i]]])
                          ELSE transformed[s]]
    /\ intermediate' = NoFiles
    /\ written' = [written EXCEPT !.outputs = @ \cup {Source}]
    /\ pc' = "summary"

CombineOk ==
    /\ pc = "combine"
    /\ CombineFiles(ChunkFiles)
    /\ UNCHANGED <<source_names, processed, run, common_earliest_year, src, chunk_number,
                   summary, ontology, uuid, exc, printed, built, mapped,
                   call>>

\* line 525: with no chunk file create_progress_bar raises ValueError
\* (data_loader.py lines 304-305), which nothing in main catches
CombineNoFiles ==
    /\ pc = "combine"
    /\ DOMAIN intermediate = {}
    /\ pc' = "crashed"
    /\ exc' = "ValueError"
    /\ UNCHANGED <<source_names, processed, run, common_earliest_year, src, chunk_number,
                   summary, intermediate, transformed, ontology, uuid, printed, built,
                   written, mapped,
                   call>>

\* line 528: reading a chunk file fails; the exception leaves
\* combine_ttl_files before anything is written or deleted, and main
\* does not catch it
CombineReadError ==
    /\ pc = "combine"
    /\ DOMAIN intermediate # {}
    /\ pc' = "crashed"
    /\ exc' = "ParseError"
    /\ UNCHANGED <<source_names, processed, run, common_earliest_year, src, chunk_number,
                   summary, intermediate, transformed, ontology, uuid, printed, built,
                   written, mapped,
                   call>>

(***************************************************************************)
(* main, lines 569-582: the summary of the source, then the next source    *)
(***************************************************************************)
PrintSummary ==
    /\ pc = "summary"
    /\ printed' = Append(printed, [source |-> Source, summary |-> summary])
    /\ IF src < Len(source_names)
       THEN pc' = "load" /\ src' = src + 1
       ELSE pc' = "done" /\ src' = src
    /\ UNCHANGED <<source_names, processed, run, common_earliest_year, chunk_number,
                   summary, intermediate, transformed, ontology, uuid, exc, built,
                   written, mapped,
                   call>>

\* A crashed run is run again over the same processed files; the files on
\* disk are as the crashed run left them.
Restart ==
    /\ pc = "crashed"
    /\ run < MaxRuns
    /\ run' = run + 1
    /\ pc' = "start"
    /\ common_earliest_year' = None
    /\ src' = 0
    /\ chunk_number' = 0
    /\ summary' = NewSummary
    /\ exc' = ""
    /\ printed' = <<>>
    /\ built' = {}
    /\ written' = NothingWritten
    /\ mapped' = {}
    /\ UNCHANGED <<source_names, processed, intermediate, transformed, ontology, uuid,
                   call>>

(***************************************************************************)
(* create_populate_ontology.py                                             *)
(***************************************************************************)
CLASSES ==
    { [name |-> "Property", uri |-> "prop:Property"],
      [name |-> "TimePoint", uri |-> "time:TimePoint"],
      [name |-> "Location", uri |-> "loc:Location"],
      [name |-> "EconomicIndicator", uri |-> "econ:EconomicIndicator"] }

SUBCLASSES ==
    { [name |-> "NationalEconomicIndicator", uri |-> "econ:NationalEconomicIndicator", parent |-> "econ:EconomicIndicator"],
      [name |-> "LocalEconomicIndicator", uri |-> "econ:LocalEconomicIndicator", parent |-> "econ:EconomicIndicator"],
      [name |-> "HousingMarketIndicator", uri |-> "house:HousingMarketIndicator", parent |-> "econ:LocalEconomicIndicator"],
      [name |-> "Year", uri |-> "time:Year", parent |-> "time:TimePoint"],
      [name |-> "YearMonth", uri |-> "time:YearMonth", parent |-> "time:TimePoint"],
      [name |-> "FullDate", uri |-> "time:FullDate", parent |-> "time:TimePoint"] }

OBJECT_PROPERTIES ==
    { [name |-> "hasLocation", uri |-> "prop:hasLocation", domain |-> "prop:Property", range |-> "loc:Location"],
      [name |-> "soldAt", uri |-> "prop:soldAt", domain |-> "prop:Property", range |-> "time:TimePoint"],
      [name |-> "hasProperty", uri |-> "loc:hasProperty", domain |-> "loc:Location", range |-> "prop:Property"],
      [name |-> "hasEconomicIndicator", uri |-> "loc:hasEconomicIndicator", domain |-> "loc:Location", range |-> "econ:EconomicIndicator"],
      [name |-> "measuredAt", uri |-> "econ:measuredAt", domain |-> "econ:EconomicIndicator", range |-> "time:TimePoint"] }

DATA_PROPERTIES ==
    { [name |-> "price", uri |-> "prop:price"], [name |-> "propertyType", uri |-> "prop:propertyType"],
      [name |-> "newBuild", uri |-> "prop:newBuild"], [name |-> "tenure", uri |-> "prop:tenure"],
      [name |-> "name", uri |-> "loc:name"], [name |-> "date", uri |-> "time:date"],
      [name |-> "year", uri |-> "time:year"], [name |-> "yearMonth", uri |-> "time:yearMonth"],
      [name |-> "rate", uri |-> "econ:rate"], [name |-> "rateType", uri |-> "econ:rateType"],
      [name |-> "additionalDwellings", uri |-> "house:additionalDwellings"],
      [name |-> "schoolCount", uri |-> "house:schoolCount"],
      [name |-> "unemploymentRate", uri |-> "econ:unemploymentRate"],
      [name |-> "transactionStatus", uri |-> "prop:transactionStatus"],
      [name |-> "transactionCategory", uri |-> "prop:transactionCategory"],
      [name |-> "address1", uri |-> "prop:address1"], [name |-> "address2", uri |-> "prop:address2"],
      [name |-> "street", uri |-> "prop:street"], [name |-> "locationName", uri |-> "prop:locationName"],
      [name |-> "postcode", uri |-> "prop:postcode"] }

\* OntologyCreator.create_ontology (lines 61-99): the skeleton graph
create_ontology ==
    UNION {{<<URIRef(c.uri, <<>>), "rdf:type", URIRef("owl:Class", <<>>)>>,
            <<URIRef(c.uri, <<>>), "rdfs:label", Literal(<<c.name>>, "")>>} : c \in CLASSES}
    \cup UNION {{<<URIRef(c.uri, <<>>), "rdf:type", URIRef("owl:Class", <<>>)>>,
                 <<URIRef(c.uri, <<>>), "rdfs:subClassOf", URIRef(c.parent, <<>>)>>,
                 <<URIRef(c.uri, <<>>), "rdfs:label", Literal(<<c.name>>, "")>>} : c \in SUBCLASSES}
    \cup UNION {{<<URIRef(q.uri, <<>>), "rdf:type", URIRef("owl:ObjectProperty", <<>>)>>,
                 <<URIRef(q.uri, <<>>), "rdfs:domain", URIRef(q.domain, <<>>)>>,
                 <<URIRef(q.uri, <<>>), "rdfs:range", URIRef(q.range, <<>>)>>,
                 <<URIRef(q.uri, <<>>), "rdfs:label", Literal(<<q.name>>, "")>>} : q \in OBJECT_PROPERTIES}
    \cup UNION {{<<URIRef(q.uri, <<>>), "rdf:type", URIRef("owl:DatatypeProperty", <<>>)>>,
                 <<URIRef(q.uri, <<>>), "rdfs:label", Literal(<<q.name>>, "")>>} : q \in DATA_PROPERTIES}

\* lines 137-142 with the graph of the last file read for self.graph
PopulateAssign(graph, files) ==
    IF files = <<>> THEN graph ELSE files[Len(files)]

\* OntologyCreator.populate_ontology (lines 115-146), the loop of lines
\* 137-142: self.graph.parse(file_path) for the files in the order of the list
RECURSIVE populate_ontology(_, _)
populate_ontology(graph, files) ==
    IF files = <<>> THEN graph
    ELSE populate_ontology(graph \cup Head(files), Tail(files))

\* create_populate_ontology.main (lines 148-176), run once main of
\* transform.py has ended: the skeleton, then every .ttl file of
\* data/transformed parsed into it, in the order glob lists them, which is
\* any order; the result is saved as the populated ontology
PopulateOntology ==
    /\ pc \in {"done", "aborted", "crashed"}
    /\ \E ttl_files \in {o \in [1..Cardinality(DOMAIN transformed) -> DOMAIN transformed] :
                             \A i, j \in DOMAIN o : o[i] = o[j] => i = j} :
          ontology' = <<populate_ontology(create_ontology,
                                          [i \in DOMAIN ttl_files |-> transformed[ttl_files[i]]])>>
    /\ UNCHANGED <<source_names, processed, pc, run, common_earliest_year, src, chunk_number,
                   summary, intermediate, transformed, uuid, exc, printed, built, written,
                   mapped,
                   call>>

Next ==
    \/ MainStart
    \/ LoadStart
    \/ TransformChunk
    \/ CombineOk
    \/ CombineNoFiles
    \/ CombineReadError
    \/ PrintSummary
    \/ Restart
    \/ PopulateOntology

Spec == Init /\ [][Next]_vars

(***************************************************************************)
(* parse_date and transform_row_to_rdf on their own: a raw date value, a   *)
(* source of MAPPINGS (its declared date_format) and a watermark are       *)
(* drawn, then each function is called once on them                        *)
(***************************************************************************)
\* the raw values of a date column the calls are made on
RawDates ==
    { NaN,
      <<>>,
      <<" ">>,
      <<"2", "0", "1", "9">>,
      <<"2", "0", "2", "1", ".", "0">>,
      <<"2", "0", "2", "1", "0">>,
      <<"9", "9", "9">>,
      <<"i", "n", "f">>,
      <<"n", "a", "n">>,
      <<"2", "0", "1", "9", " ", "Q", "3">>,
      <<"2", "0", "1", "9", " ", "q", "1">>,
      <<"2", "0", "1", "9", " ", "Q", "5">>,
      <<"2", "0", "1", "9", " ", "Q", "2">>,
      <<"2", "0", "1", "9", " ", "q", "4">>,
      <<"a", "b", "c", " ", "Q", "1">>,
      <<"2", "0", "1", "9", "0", "0", " ", "Q", "1">>,
      <<"1", "2", "3", "4", "5", "6", "7", "8", "9">>,
      <<"2", "0", "1", "9", " ", "M", "a", "r">>,
      <<"2", "0", "1", "9", "-", "0", "7">>,
      <<"2", "0", "0", "5", "-", "1", "3">>,
      <<"2", "0", "0", "5", "-", "0", "3", "-", "0", "1">>,
      <<"2", "0", "0", "5", "-", "3", "-", "1">>,
      <<"2", "0", "2", "1", "-", "0", "2", "-", "3", "0">>,
      <<"0", "1", " ", "J", "a", "n", " ", "2", "0">>,
      <<"2", "0", "1", "9", "-", "2", "0", "2", "0">>,
      <<"n", "o", "t", "a", "d", "a", "t", "e">> }

\* the watermarks the row mapper is called with
Watermarks == {1990, 2015}

\* a row of the source with the value in its date column
RowOf(source_name, value) ==
    IF MAPPINGS[source_name].uri_pattern.key = "transaction_id"
    THEN [transaction_id |-> <<"{", "A", "1", "}">>, date |-> value]
    ELSE [date |-> value]

\* main is not running
Idle ==
    /\ source_names = <<>>
    /\ processed = NoFiles
    /\ pc = "idle"
    /\ run = 0
    /\ common_earliest_year = None
    /\ src = 0
    /\ chunk_number = 0
    /\ summary = NewSummary
    /\ intermediate = NoFiles
    /\ transformed = NoFiles
    /\ ontology = <<>>
    /\ uuid = 0
    /\ exc = ""
    /\ printed = <<>>
    /\ built = {}
    /\ written = NothingWritten
    /\ mapped = {}

InitCall ==
    /\ Idle
    /\ \E value \in RawDates, source_name \in DOMAIN MAPPINGS, watermark \in Watermarks :
          call = [NoCall EXCEPT !.value = value, !.source = source_name,
                                !.watermark = watermark]

\* parse_date(value, mappings[source]['date_format'])
CallParseDate ==
    /\ pc = "idle"
    /\ ~call.parsed
    /\ call' = [call EXCEPT !.parsed = TRUE,
                            !.returned = parse_date(call.value, MAPPINGS[call.source].date_format)]
    /\ UNCHANGED <<source_names, processed, pc, run, common_earliest_year, src, chunk_number,
                   summary, intermediate, transformed, ontology, uuid, exc, printed, built,
                   written, mapped>>

\* transform_row_to_rdf on a row with the value as its date, an empty chunk
\* graph and a new summary
CallTransformRow ==
    /\ pc = "idle"
    /\ ~call.transformed
    /\ call' = [call EXCEPT !.transformed = TRUE,
                            !.row = transform_row_to_rdf(RowOf(call.source, call.value),
                                                         MAPPINGS[call.source], {},
                                                         call.watermark, NewSummary, 0)]
    /\ UNCHANGED <<source_names, processed, pc, run, common_earliest_year, src, chunk_number,
                   summary, intermediate, transformed, ontology, uuid, exc, printed, built,
                   written, mapped>>

\* parse_date on the date a first call of parse_date returned, under the
\* same date_format
CallParseAgain ==
    /\ pc = "idle"
    /\ call.parsed
    /\ call.returned.tag = "ok"
    /\ ~call.reparsed
    /\ call' = [call EXCEPT !.reparsed = TRUE,
                            !.again = parse_date(call.returned.val,
                                                 MAPPINGS[call.source].date_format)]
    /\ UNCHANGED <<source_names, processed, pc, run, common_earliest_year, src, chunk_number,
                   summary, intermediate, transformed, ontology, uuid, exc, printed, built,
                   written, mapped>>

NextCall ==
    \/ CallParseDate
    \/ CallTransformRow
    \/ CallParseAgain

SpecCall == InitCall /\ [][NextCall]_vars

(***************************************************************************)
(* sanitize_uri and validate_location on their own: a text is drawn, then  *)
(* each function is called once on it                                      *)
(***************************************************************************)
\* the texts over a digit, two letters, the dash, the underscore and two
\* other characters; location names around the entries of valid_locations;
\* an address
RawTexts ==
    SeqsUpTo({"3", "a", "Z", "-", "_", " ", "!"}, MaxTextLen) \cup
    { <<"L", "e", "e", "d", "s">>,
      <<"L", "E", "E", "D", "S">>,
      <<"L", "e", "e", "d", "s", " ", "u", "a">>,
      <<"y", "o", "r", "k">>,
      <<"N", "e", "w", " ", "Y", "o", "r", "k">>,
      <<"Y", "o", "r", "k", " ", "L", "e", "e", "d", "s">>,
      <<"L", "e", "e">>,
      <<"o", "r">>,
      <<"N", "o", "w", "h", "e", "r", "e">>,
      <<"3", " ", "M", "a", "i", "n", " ", "S", "t", "!">> }

InitText ==
    /\ Idle
    /\ \E value \in RawTexts : call = [NoCall EXCEPT !.value = value]

\* sanitize_uri(value)
CallSanitizeUri ==
    /\ pc = "idle"
    /\ ~call.sanitized
    /\ call' = [call EXCEPT !.sanitized = TRUE, !.uri = sanitize_uri(call.value)]
    /\ UNCHANGED <<source_names, processed, pc, run, common_earliest_year, src, chunk_number,
                   summary, intermediate, transformed, ontology, uuid, exc, printed, built,
                   written, mapped>>

\* validate_location(value)
CallValidateLocation ==
    /\ pc = "idle"
    /\ ~call.validated
    /\ call' = [call EXCEPT !.validated = TRUE, !.location = validate_location(call.value)]
    /\ UNCHANGED <<source_names, processed, pc, run, common_earliest_year, src, chunk_number,
                   summary, intermediate, transformed, ontology, uuid, exc, printed, built,
                   written, mapped>>

NextText ==
    \/ CallSanitizeUri
    \/ CallValidateLocation

SpecText == InitText /\ [][NextText]_vars

(***************************************************************************)
(* transform_row_to_rdf on rows of price_paid: a row is drawn, then mapped  *)
(* once, with a new summary, into a chunk graph that is empty or holds the *)
(* triples of an earlier row of the chunk                                  *)
(***************************************************************************)
\* the watermark the rows are mapped with
RowWatermark == 1990

\* rows of processed_price_paid.csv: transaction ids with and without braces
\* and with characters no URI segment may hold, dates on both sides of the
\* watermark, coded columns inside and outside their valid_values
RawRows ==
    { [transaction_id |-> tid, date |-> date, property_type |-> property_type,
       old_new |-> old_new, transaction_status |-> transaction_status,
       location_name |-> location_name] :
        tid \in { <<"{", "A", "1", "}">>, <<"3", "B">>, <<"a", " ", "b">>, <<"x", "/", "y">> },
        date \in { <<"2", "0", "0", "5", "-", "0", "3", "-", "0", "1">>,
                   <<"1", "9", "8", "5", "-", "0", "3", "-", "0", "1">>, NaN },
        property_type \in { <<"d">>, <<"x">>, NaN },
        old_new \in { <<"y">>, <<"q">> },
        transaction_status \in { <<"a">>, <<"z">> },
        location_name \in { <<"L", "e", "e", "d", "s">>, <<"N", "e", "w", " ", "Y", "o", "r", "k">>,
                            <<"3", " ", "S", "t">> } }

InitRow ==
    /\ Idle
    /\ \E row \in RawRows :
       \E graph \in {{}, transform_row_to_rdf(
                             [transaction_id |-> <<"{", "Z", "9", "}">>,
                              date |-> <<"2", "0", "0", "5", "-", "0", "3", "-", "0", "1">>],
                             MAPPINGS["price_paid"], {}, RowWatermark, NewSummary, 0).graph} :
          call = [NoCall EXCEPT !.value = row, !.source = "price_paid",
                                !.watermark = RowWatermark, !.graph = graph]

\* transform_row_to_rdf(row, mappings['price_paid'], chunk_graph, watermark, summary)
CallMapRow ==
    /\ pc = "idle"
    /\ ~call.transformed
    /\ call' = [call EXCEPT !.transformed = TRUE,
                            !.row = transform_row_to_rdf(call.value, MAPPINGS[call.source],
                                                         call.graph,
                                                         call.watermark, NewSummary, 0)]
    /\ UNCHANGED <<source_names, processed, pc, run, common_earliest_year, src, chunk_number,
                   summary, intermediate, transformed, ontology, uuid, exc, printed, built,
                   written, mapped>>

SpecRow == InitRow /\ [][CallMapRow]_vars

(***************************************************************************)
(* main over a large file of many chunks: the source list is unemployment  *)
(* and a source without mapping, processed_unemployment.csv is over         *)
(* LARGE_FILE_THRESHOLD and has up to MaxChunks chunks of one row           *)
(***************************************************************************)
InitLong ==
    /\ source_names = <<"unemployment", "no_mapping">>
    /\ \E n \in 2..MaxChunks :
          processed = [s \in {"unemployment", "no_mapping"} |->
                          IF s = "unemployment"
                          THEN [large |-> TRUE,
                                rows |-> [i \in 1..n |->
                                             [date |-> <<"1", "9", "9", "5">>,
                                              unemployment_rate |-> <<"5">>]]]
                          ELSE [large |-> FALSE, rows |-> <<>>]]
    /\ pc = "start"
    /\ run = 1
    /\ common_earliest_year = None
    /\ src = 0
    /\ chunk_number = 0
    /\ summary = NewSummary
    /\ intermediate = NoFiles
    /\ transformed = NoFiles
    /\ ontology = <<>>
    /\ uuid = 0
    /\ exc = ""
    /\ printed = <<>>
    /\ built = {}
    /\ written = NothingWritten
    /\ mapped = {}
    /\ call = NoCall

SpecLong == InitLong /\ [][Next]_vars

(***************************************************************************)
(* Properties                                                              *)
(***************************************************************************)
\* C1: once main has computed it, the common earliest year is the maximum
\* of the earliest years of the sources that have one (it is one of them
\* and none of them is greater), and it is None exactly when no source has
\* an earliest year.  The earliest year of a source is what
\* extract_earliest_year returns for it.
C1_CommonEarliestYear ==
    pc \notin {"start", "idle"} =>
        LET years == {extract_earliest_year(source_names[i], processed[source_names[i]]) :
                         i \in 1..Len(source_names)} \ {None}
        IN IF years = {} THEN common_earliest_year = None
           ELSE /\ common_earliest_year \in years
                /\ \A y \in years : y <= common_earliest_year

\* C1 witness: the earliest years of three sources are 2005, 2010 and 1995
\* and the common earliest year found is 2010
C1_Witness ==
    /\ pc = "load"
    /\ Len(source_names) = 3
    /\ <<extract_earliest_year(source_names[1], processed[source_names[1]]),
         extract_earliest_year(source_names[2], processed[source_names[2]]),
         extract_earliest_year(source_names[3], processed[source_names[3]])>>
       = <<2005, 2010, 1995>>
    /\ common_earliest_year = 2010

\* C2: a run that found no common earliest year has ended before any
\* source was transformed: no row was read or mapped, no summary printed,
\* no chunk file and no output file exists; and only a run that found a
\* common earliest year goes on to the sources.
C2_AbortBeforeTransform ==
    /\ pc = "aborted" =>
          /\ common_earliest_year = None
          /\ mapped = {}
          /\ summary = NewSummary
          /\ printed = <<>>
          /\ written = NothingWritten
          /\ intermediate = NoFiles
          /\ transformed = NoFiles
    /\ pc \in {"load", "chunks", "combine", "summary", "done", "crashed"} =>
          common_earliest_year # None

\* C2 witness: the run has aborted although a processed file has rows
C2_Witness ==
    /\ pc = "aborted"
    /\ \E s \in DOMAIN processed : processed[s].rows # <<>>

\* C3: in every chunk file, every output file and the populated ontology,
\* every node of a time class, as subject or as object of a triple, names a
\* date whose year is not before the common earliest year of the processed
\* files; and every row counted as mapped has a date that parses to a year
\* not before it.
C3_NothingBeforeWatermark ==
    LET watermark == find_common_earliest_year(source_names, processed)
        TimeNs == {"time:Year/", "time:YearMonth/", "time:FullDate/", "time:AcademicYear/"}
        InRange(node) ==
            (node.t = "uri" /\ node.ns \in TimeNs) =>
                /\ PyInt(BeforeDash(node.v)).tag = "ok"
                /\ PyInt(BeforeDash(node.v)).val >= watermark
        Graphs == {intermediate[n] : n \in DOMAIN intermediate}
                  \cup {transformed[s] : s \in DOMAIN transformed}
                  \cup {ontology[i] : i \in DOMAIN ontology}
                  \cup {built}
    IN /\ \A g \in Graphs : \A tr \in g : InRange(tr[1]) /\ InRange(tr[3])
       /\ \A m \in mapped :
             /\ parse_date(m.row.date, MAPPINGS[m.source].date_format).tag = "ok"
             /\ PyInt(BeforeDash(parse_date(m.row.date,
                                            MAPPINGS[m.source].date_format).val)).val
                >= watermark

\* C3 witness: the run is done and the ontology populated; the ontology
\* links an entity to a time node, and a printed summary has a skipped date
\* whose year is before the common earliest year
C3_Witness ==
    /\ pc = "done"
    /\ ontology # <<>>
    /\ \E tr \in ontology[1] :
          /\ tr[3].ns \in {"time:Year/", "time:YearMonth/", "time:FullDate/"}
          /\ tr[1].ns \notin {"time:Year/", "time:YearMonth/", "time:FullDate/"}
    /\ \E i \in 1..Len(printed) :
          \E v \in printed[i].summary.skipped_dates :
             /\ parse_date(v, MAPPINGS[printed[i].source].date_format).tag = "ok"
             /\ PyInt(BeforeDash(parse_date(v, MAPPINGS[printed[i].source].date_format).val)).val
                < common_earliest_year

\* C4: parse_date returns for every value, a date or the failure value, and
\* never raises; and the row mapper, given a row whose date parse_date does
\* not parse, fails the row and records the raw value in skipped_dates.
C4_UnparseableIsSkipped ==
    /\ call.parsed => call.returned.tag \in {"ok", "none"}
    /\ (call.parsed /\ call.transformed /\ call.returned.tag # "ok") =>
          /\ ~call.row.ok
          /\ call.value \in call.row.summary.skipped_dates

\* C5: once main has reached a source without mapping and has ended, other
\* than by a chunk file that could not be read, the summary printed for that
\* source carries the 'No mapping configuration found' error and every
\* source that has a mapping has been merged into its output file.
C5_NoMappingConfined ==
    \A i \in 1..Len(source_names) :
        (/\ ~HasMapping(source_names[i])
         /\ src >= i
         /\ pc \in {"done", "crashed"}
         /\ exc # "ParseError") =>
            /\ \E k \in 1..Len(printed) :
                  /\ printed[k].source = source_names[i]
                  /\ printed[k].summary.errors =
                        <<ErrorMsg("No mapping configuration found", source_names[i], <<>>)>>
            /\ \A j \in 1..Len(source_names) :
                  HasMapping(source_names[j]) => source_names[j] \in written.outputs

\* C6: when main has ended on a chunk file that could not be read during
\* the merge of a source, no output file was written for that source in
\* this run and every other source has been merged into its output file.
C6_MergeFailureIsolated ==
    (pc = "crashed" /\ exc = "ParseError") =>
        /\ source_names[src] \notin written.outputs
        /\ \A j \in 1..Len(source_names) :
              j # src => source_names[j] \in written.outputs

\* C7: main never ends on the exception of a merge that finds no chunk
\* file, at a source that has a mapping: its summary is printed and main
\* goes on to the next source.
C7_NoExceptionEscapes ==
    (pc = "crashed" /\ exc = "ValueError") => ~HasMapping(source_names[src])

\* C8: the output file a merge has just written for a source holds exactly
\* the union of the chunk graphs this run built from the rows of that
\* source.
C8_OutputIsOwnChunks ==
    pc = "summary" => transformed[source_names[src]] = built

\* C9: for any two chunk files A and B in the scratch directory, merging
\* A then B gives the triples of merging B then A, and merging A with
\* itself gives the triples of merging A once.
C9_MergeCommutesIdempotent ==
    \A a \in DOMAIN intermediate : \A b \in DOMAIN intermediate :
        /\ CombineGraphs({}, <<intermediate[a], intermediate[b]>>)
           = CombineGraphs({}, <<intermediate[b], intermediate[a]>>)
        /\ CombineGraphs({}, <<intermediate[a], intermediate[a]>>)
           = CombineGraphs({}, <<intermediate[a]>>)

\* C9 witness: two chunk files hold graphs neither of which contains the
\* other, and main is about to merge them
C9_Witness ==
    /\ pc = "combine"
    /\ \E a \in DOMAIN intermediate : \E b \in DOMAIN intermediate :
          /\ ~(intermediate[a] \subseteq intermediate[b])
          /\ ~(intermediate[b] \subseteq intermediate[a])

\* C10: every date parse_date returns has 4, 7, 9 or 10 characters.
C10_LengthIsGranularity ==
    (call.parsed /\ call.returned.tag = "ok") => Len(call.returned.val) \in {4, 7, 9, 10}

\* C11: a date parse_date returned, parsed again under the same
\* date_format, comes back unchanged.
C11_ParseIdempotent ==
    call.reparsed => call.again = call.returned

\* C12: parse_date under the plain-year format gives "2021" for "2021.0";
\* under the formats of the quarterly source it gives the year, "-" and the
\* first month of the quarter (01, 04, 07, 10) for a year and Q1..Q4 in
\* either case; and it gives the failure value for "notadate" under the
\* date_format of every source.
C12_ParseExamples ==
    LET Quarter(q, month) ==
            (/\ Len(call.value) = 7
             /\ SubSeq(call.value, 1, 5) = <<"2", "0", "1", "9", " ">>
             /\ call.value[6] \in {"Q", "q"}
             /\ call.value[7] = q) =>
                call.returned = Ok(<<"2", "0", "1", "9", "-">> \o month)
    IN call.parsed =>
        /\ (call.value = <<"2", "0", "2", "1", ".", "0">>
            /\ MAPPINGS[call.source].date_format = OneFormat(DATE_FORMATS.YYYY)) =>
               call.returned = Ok(<<"2", "0", "2", "1">>)
        /\ call.source = "unemployment" =>
               /\ Quarter("1", <<"0", "1">>)
               /\ Quarter("2", <<"0", "4">>)
               /\ Quarter("3", <<"0", "7">>)
               /\ Quarter("4", <<"1", "0">>)
        /\ call.value = <<"n", "o", "t", "a", "d", "a", "t", "e">> =>
               call.returned = Exc("none")

\* C12 witness: "2019 q4" was parsed under the formats of the quarterly
\* source and "2019-10" returned
C12_Witness ==
    /\ call.parsed
    /\ call.source = "unemployment"
    /\ call.value = <<"2", "0", "1", "9", " ", "q", "4">>
    /\ call.returned = Ok(<<"2", "0", "1", "9", "-", "1", "0">>)

C20_ValidateEitherDirection ==
    LET name == LowerStr(call.value)
        hits == {i \in 1..Len(valid_locations) :
                    \/ Contains(name, LowerStr(valid_locations[i]))
                    \/ Contains(LowerStr(valid_locations[i]), name)}
    IN call.validated =>
          call.location = IF hits = {} THEN NaN
                          ELSE valid_locations[CHOOSE i \in hits : \A j \in hits : i <= j]

\* C14: every URI path segment the row mapper derives from row data, the
\* transaction id in the entity URI and a relationship value in the URI of
\* the related entity, holds only letters, digits, dashes and underscores
\* and does not start with a digit.
C14_UriSegmentsSanitised ==
    call.transformed =>
        \A tr \in call.row.graph : \A n \in {tr[1], tr[3]} :
            (n.t = "uri" /\ n.ns \in {"prop:Property/", "loc:Location"} /\ n.v # <<>>) =>
                /\ \A i \in 1..Len(n.v) :
                      \/ IsWordChar(n.v[i]) \/ n.v[i] = "-"
                      \/ (i = 1 /\ n.ns = "loc:Location" /\ n.v[i] = "/")
                /\ ~IsDigit(n.v[IF n.ns = "loc:Location" THEN 2 ELSE 1])

\* C15: when the first failure of a row is a non-null value outside the
\* valid_values of its field, the row fails there: the summary's errors are
\* exactly one message with the field and the value, and the graph holds no
\* triple of a later field of the row.
C15_InvalidValueFailsAtOnce ==
    LET fields == MAPPINGS["price_paid"].fields
        bad == {i \in 1..Len(fields) :
                   /\ fields[i].has_valid_values
                   /\ fields[i].field \in DOMAIN call.value
                   /\ ~IsNa(call.value[fields[i].field])
                   /\ call.value[fields[i].field] \notin fields[i].valid_values}
    IN  (call.transformed /\ bad # {} /\ call.row.summary.skipped_dates = {}) =>
            LET k == CHOOSE i \in bad : \A j \in bad : i <= j
            IN  /\ ~call.row.ok
                /\ call.row.summary.errors =
                      <<ErrorMsg("Invalid value", fields[k].field, call.value[fields[k].field])>>
                /\ \A j \in (k + 1)..Len(fields) :
                      \A tr \in call.row.graph : tr[2] # fields[j].property

\* a row with an unknown property_type and a valid location after it: the
\* date link is in the graph, the location is not
C15_Witness ==
    /\ call.transformed
    /\ call.value.property_type = <<"x">>
    /\ call.value.transaction_status = <<"a">>
    /\ call.value.date = <<"2", "0", "0", "5", "-", "0", "3", "-", "0", "1">>
    /\ \E tr \in call.row.graph : tr[2] = "time:date"
    /\ call.row.summary.errors = <<ErrorMsg("Invalid value", "property_type", <<"x">>)>>

\* C16: when price_paid, whose rows carry a transaction id, has two rows,
\* one dated at or after the watermark and one dated before it, the run
\* counts one mapped row, its output graph has exactly one node typed with
\* the target class of the source, and one date is recorded as skipped.
C16_OneEntityOneSkipped ==
    (/\ pc = "summary"
     /\ run = 1
     /\ Source = "price_paid"
     /\ Len(processed["price_paid"].rows) = 2
     /\ \E i, j \in 1..2 :
           /\ PyInt(BeforeDash(processed["price_paid"].rows[i].date)).val >= common_earliest_year
           /\ PyInt(BeforeDash(processed["price_paid"].rows[j].date)).val < common_earliest_year)
    => /\ summary.mapped_rows = 1
       /\ Cardinality(summary.skipped_dates) = 1
       /\ Cardinality({tr \in transformed["price_paid"] :
                          tr[2] = "rdf:type" /\ tr[3] = URIRef(MAPPINGS["price_paid"].class, <<>>)}) = 1

\* C17: while a source with a mapping is transformed, and at its end,
\* total_rows is the number of rows of the chunks read so far that survived
\* the location filter, whatever earlier rows returned, mapped_rows is the
\* number of them the row mapper returned True for, and
\* 0 <= mapped_rows <= total_rows.
C17_RowFailuresNotFatal ==
    (pc \in {"chunks", "combine", "summary"} /\ HasMapping(Source)) =>
        LET mapping == MAPPINGS[Source]
            chunks == get_chunked_data(processed[Source])
            rows(k) == IF HasLocation(mapping) THEN LocationFiltered(chunks[k]) ELSE chunks[k]
            attempted == {a \in (1..chunk_number) \X (1..MaxFileRows) : a[2] <= Len(rows(a[1]))}
        IN  /\ summary.total_rows = Cardinality(attempted)
            /\ summary.mapped_rows =
                  Cardinality({a \in attempted :
                                  transform_row_to_rdf(rows(a[1])[a[2]], mapping, {},
                                                       common_earliest_year, NewSummary, 0).ok})
            /\ 0 <= summary.mapped_rows
            /\ summary.mapped_rows <= summary.total_rows

\* price_paid at its end: the first row, dated before the watermark, failed
\* and the second was mapped all the same
C17_Witness ==
    /\ pc = "summary"
    /\ Source = "price_paid"
    /\ Len(processed["price_paid"].rows) = 2
    /\ processed["price_paid"].rows[1].date = <<"2", "0", "0", "5", "-", "0", "3", "-", "0", "1">>
    /\ Cardinality(summary.skipped_dates) = 1
    /\ summary.total_rows = 2
    /\ summary.mapped_rows = 1

C19_KeyedOutputStable ==
    [][(/\ pc = "combine"
        /\ pc' = "summary"
        /\ Source = "price_paid"
        /\ "price_paid" \in DOMAIN transformed)
       => transformed'["price_paid"] = transformed["price_paid"]]_vars

\* C21: under a declared list of date formats, parse_date returns what the
\* first format of the list that parses the value gives, whatever a later
\* format would make of the value, and returns None only when no format of
\* the list parses the value.
C21_FirstFormatWins ==
    (call.parsed /\ ~MAPPINGS[call.source].date_format.isstr /\ ~IsNa(call.value)) =>
        LET date_formats == MAPPINGS[call.source].date_format.v
            date_str == Strip(Str(call.value))
            parses == {i \in 1..Len(date_formats) :
                          ParseOne(date_str, date_formats[i]).tag = "ok"}
        IN  /\ parses # {} =>
                  call.returned = ParseOne(date_str, date_formats[SetMin(parses)])
            /\ call.returned.tag = "none" => parses = {}

\* C21 witness: "2019" was parsed under the list of the unemployment source,
\* whose first format gives "2019" and whose second gives a year and month
C21_Witness ==
    /\ call.parsed
    /\ call.source = "unemployment"
    /\ call.value = <<"2", "0", "1", "9">>
    /\ call.returned = Ok(<<"2", "0", "1", "9">>)
    /\ ParseOne(call.value, MAPPINGS["unemployment"].date_format.v[2]).tag = "ok"
    /\ ParseOne(call.value, MAPPINGS["unemployment"].date_format.v[2]) # call.returned

\* C22: the earliest year of a source with a mapping is the minimum of the
\* years of its rows whose date parse_date normalises; a row whose date
\* does not normalise, a quarter text with an unknown quarter included,
\* neither changes that minimum nor leaves the source without an earliest
\* year.
C22_MinOverParsedRows ==
    pc \notin {"start", "idle"} =>
        \A s \in {source_names[i] : i \in 1..Len(source_names)} :
            HasMapping(s) =>
                LET parsed == ParsedDates(s, processed[s])
                    years == {YearOf(parsed[i]).val :
                                 i \in {j \in 1..Len(parsed) :
                                           parsed[j].tag = "ok" /\ YearOf(parsed[j]).tag = "ok"}}
                IN  extract_earliest_year(s, processed[s])
                    = IF years = {} THEN None ELSE SetMin(years)

\* C23: a row that fails at a field is not rolled back: the chunk graph
\* after it is the graph before it with the type triple of the entity and
\* the triples of the fields before the failing field, as the loop over
\* those fields alone leaves them, and every triple of the graph before the
\* row is still there.
C23_FailedRowNotRolledBack ==
    (call.transformed /\ ~call.row.ok) =>
        LET mapping == MAPPINGS[call.source]
            entity_uri == EntityUri(call.value, mapping, 0)
            type == <<entity_uri, "rdf:type", URIRef(mapping.class, <<>>)>>
            upto(k) == FieldLoop(call.value, SubSeq(mapping.fields, 1, k), mapping, entity_uri,
                                 call.watermark,
                                 [ok |-> TRUE, graph |-> call.graph \cup {type},
                                  summary |-> NewSummary])
            failing == CHOOSE k \in 1..Len(mapping.fields) : ~upto(k).ok /\ upto(k - 1).ok
        IN  /\ call.row.graph = upto(failing - 1).graph
            /\ call.graph \subseteq call.row.graph
            /\ type \in call.row.graph
            /\ "transaction_id" \in DOMAIN call.value /\ failing > 1 =>
                  <<entity_uri, "prop:transactionId",
                    Literal(call.value.transaction_id, "xsd:string")>> \in call.row.graph

\* C23 witness: a row with a date after the watermark and an unknown
\* property_type failed in a chunk graph that held an earlier row: its type
\* triple and its date link are in the graph
C23_Witness ==
    /\ call.transformed
    /\ ~call.row.ok
    /\ call.graph # {}
    /\ call.value.property_type = <<"x">>
    /\ call.value.transaction_id = <<"3", "B">>
    /\ \E tr \in call.row.graph \ call.graph :
          tr[1] = URIRef("prop:Property/", <<"3", "B">>) /\ tr[2] = "time:date"
    /\ \E tr \in call.row.graph \ call.graph :
          tr[1] = URIRef("prop:Property/", <<"3", "B">>) /\ tr[2] = "rdf:type"

\* C24: a step over a chunk that is empty or has no row with a valid
\* location leaves the summary and the scratch directory as they were; a
\* step over any other chunk writes the one file of its chunk number and
\* leaves every other chunk file alone.
C24_SkippedChunkLeavesNothing ==
    [][(pc = "chunks" /\ chunk_number' = chunk_number + 1) =>
          LET chunk == get_chunked_data(processed[Source])[chunk_number + 1]
              kept == IF HasLocation(MAPPINGS[Source]) THEN LocationFiltered(chunk) ELSE chunk
          IN  IF chunk = <<>> \/ kept = <<>>
              THEN /\ summary' = summary
                   /\ intermediate' = intermediate
                   /\ written' = written
              ELSE /\ DOMAIN intermediate' = DOMAIN intermediate \cup {chunk_number}
                   /\ \A n \in DOMAIN intermediate \ {chunk_number} :
                         intermediate'[n] = intermediate[n]
                   /\ written'.chunks = written.chunks + 1
                   /\ summary'.total_rows = summary.total_rows + Len(kept)]_vars

\* C24 witness: additional_dwellings was read in two chunks; chunk 0 had no
\* valid location and left no file, chunk 1 left its file
C24_Witness ==
    /\ pc = "combine"
    /\ run = 1
    /\ Source = "additional_dwellings"
    /\ processed["additional_dwellings"].large
    /\ chunk_number = 2
    /\ DOMAIN intermediate = {1}
    /\ summary.total_rows = 1

\* C25: invalid_locations is empty in every summary, the current one and
\* the printed ones; and while a source with a location field is
\* transformed, the rows read so far that have no valid location are not
\* in total_rows, and no skipped date and no error comes from them: there
\* are no more errors and skipped dates than rows with a valid location,
\* and every skipped date is the date of such a row.
C25_DroppedRowsLeaveNoTrace ==
    /\ summary.invalid_locations = {}
    /\ \A i \in 1..Len(printed) : printed[i].summary.invalid_locations = {}
    /\ (pc \in {"chunks", "combine", "summary"} /\ HasMapping(Source)
        /\ HasLocation(MAPPINGS[Source])) =>
          LET chunks == get_chunked_data(processed[Source])
              read == {a \in (1..chunk_number) \X (1..MaxFileRows) : a[2] <= Len(chunks[a[1]])}
              located == {a \in read : ~IsNa(ValidLocation(chunks[a[1]][a[2]]))}
          IN  /\ summary.total_rows = Cardinality(located)
              /\ Len(summary.errors) + Cardinality(summary.skipped_dates) <= Cardinality(located)
              /\ summary.skipped_dates \subseteq {chunks[a[1]][a[2]].date : a \in located}

\* C25 witness: additional_dwellings was read as one chunk of two rows, one
\* of them without a valid location: one row is counted
C25_Witness ==
    /\ pc = "combine"
    /\ Source = "additional_dwellings"
    /\ ~processed["additional_dwellings"].large
    /\ Len(processed["additional_dwellings"].rows) = 2
    /\ \E i \in 1..2 : IsNa(ValidLocation(processed["additional_dwellings"].rows[i]))
    /\ summary.total_rows = 1
    /\ summary.invalid_locations = {}

\* C26: the merge reads the chunk files in increasing order of their chunk
\* numbers, however many there are.
C26_MergeInNumericOrder ==
    pc = "combine" =>
        \A i \in 1..Len(ChunkFiles) : \A j \in 1..Len(ChunkFiles) :
            i < j => ChunkFiles[i] < ChunkFiles[j]

\* C27: a step that deletes a chunk file is a merge that has written the
\* output of the source with the triples of every chunk file, and it deletes
\* them all; a merge that fails deletes nothing; and when the transform of
\* a source after the first of a run starts, the scratch directory is empty.
C27_DeletedAfterSerialised ==
    [][/\ (\E n \in DOMAIN intermediate : n \notin DOMAIN intermediate') =>
             /\ pc = "combine"
             /\ pc' = "summary"
             /\ intermediate' = NoFiles
             /\ Source \in DOMAIN transformed'
             /\ transformed'[Source] = UNION {intermediate[n] : n \in DOMAIN intermediate}
       /\ (pc = "combine" /\ pc' = "crashed") =>
             /\ intermediate' = intermediate
             /\ transformed' = transformed
       /\ (pc = "combine" /\ pc' = "summary") => intermediate' = NoFiles
       /\ (pc' = "load" /\ src' > 1) => intermediate' = NoFiles]_vars

\* C27 witness: the first source was merged into a non-empty output, and
\* the transform of the second starts with an empty scratch directory
C27_Witness ==
    /\ pc = "load"
    /\ src = 2
    /\ intermediate = NoFiles
    /\ source_names[1] \in DOMAIN transformed
    /\ transformed[source_names[1]] # {}
    /\ written.chunks > 0

\* C28: whatever raw date the row mapper is called on, under whatever
\* declared format, the graph it leaves has no node of type
\* time:AcademicYear and no startYear or endYear triple.
C28_NoAcademicYearNode ==
    call.transformed =>
        \A tr \in call.row.graph :
            /\ tr[3] # URIRef("time:AcademicYear", <<>>)
            /\ tr[2] \notin {"time:startYear", "time:endYear"}

\* C29 as stated: at the end of every source, the rows that were not mapped
\* are at least as many as the errors and the skipped dates together.
C29_FailuresCoverRecords ==
    pc \in {"combine", "summary"} =>
        summary.total_rows - summary.mapped_rows
            >= Len(summary.errors) + Cardinality(summary.skipped_dates)

\* C29 for a source with a mapping: a step over a chunk of one row leaves,
\* when the row failed, either one more error or the date of the row among
\* the skipped dates, never both and never neither, and nothing when the
\* row was mapped; at the end of the source the rows not mapped are at
\* least as many as the errors and the skipped dates together, and more
\* when two rows the mapper skips for their date carry the same date.
C29_OneRecordPerFailedRow ==
    [][/\ (pc = "chunks" /\ summary'.total_rows = summary.total_rows + 1) =>
             IF summary'.mapped_rows = summary.mapped_rows + 1
             THEN /\ summary'.errors = summary.errors
                  /\ summary'.skipped_dates = summary.skipped_dates
             ELSE /\ summary'.mapped_rows = summary.mapped_rows
                  /\ \/ /\ Len(summary'.errors) = Len(summary.errors) + 1
                        /\ summary'.skipped_dates = summary.skipped_dates
                     \/ /\ summary'.errors = summary.errors
                        /\ summary'.skipped_dates # {}
                        /\ summary'.skipped_dates \ summary.skipped_dates \subseteq
                              {r.date : r \in {get_chunked_data(processed[Source])[chunk_number + 1][i] :
                                                  i \in 1..Len(get_chunked_data(processed[Source])[chunk_number + 1])}}
                        /\ \E r \in {get_chunked_data(processed[Source])[chunk_number + 1][i] :
                                        i \in 1..Len(get_chunked_data(processed[Source])[chunk_number + 1])} :
                              r.date \in summary'.skipped_dates
       /\ (pc = "chunks" /\ pc' = "combine") =>
             /\ summary'.total_rows - summary'.mapped_rows
                   >= Len(summary'.errors) + Cardinality(summary'.skipped_dates)
             /\ (\E i, j \in 1..Len(processed[Source].rows) :
                    /\ i < j
                    /\ processed[Source].rows[i].date = processed[Source].rows[j].date
                    /\ \A k \in {i, j} :
                          /\ HasLocation(MAPPINGS[Source]) =>
                                ~IsNa(ValidLocation(processed[Source].rows[k]))
                          /\ transform_row_to_rdf(processed[Source].rows[k], MAPPINGS[Source], {},
                                                  common_earliest_year, NewSummary, 0
                                                 ).summary.skipped_dates # {})
                => summary'.total_rows - summary'.mapped_rows
                      > Len(summary'.errors) + Cardinality(summary'.skipped_dates)]_vars

\* C29 witness: price_paid had the same row dated before the watermark
\* twice: two rows failed and one date is recorded
C29_Witness ==
    /\ pc = "combine"
    /\ Source = "price_paid"
    /\ summary.total_rows = 2
    /\ summary.mapped_rows = 0
    /\ summary.errors = <<>>
    /\ Cardinality(summary.skipped_dates) = 1

\* C30: in the chunk graphs a run has saved for a source, the nodes typed
\* with the target class are, for a source keyed by transaction_id, the
\* URIs of the transaction ids of the rows attempted, one node for rows
\* with the same id, so that there are no more nodes than rows attempted;
\* for a source with synthetic identifiers there are as many nodes as rows
\* attempted, mapped or failed.
C30_EntityNodesPerKey ==
    (pc \in {"chunks", "combine", "summary"} /\ HasMapping(Source)) =>
        LET mapping == MAPPINGS[Source]
            chunks == get_chunked_data(processed[Source])
            attempted == {a \in (1..chunk_number) \X (1..MaxFileRows) :
                             /\ a[2] <= Len(chunks[a[1]])
                             /\ HasLocation(mapping) => ~IsNa(ValidLocation(chunks[a[1]][a[2]]))}
            nodes == {tr[1] : tr \in {x \in built : x[2] = "rdf:type"
                                                    /\ x[3] = URIRef(mapping.class, <<>>)}}
        IN  IF mapping.uri_pattern.key = "transaction_id"
            THEN /\ nodes = {URIRef(mapping.uri_pattern.ns,
                                    SelectSeq(chunks[a[1]][a[2]].transaction_id,
                                              LAMBDA c : c \notin {"{", "}"})) : a \in attempted}
                 /\ Cardinality(nodes) <= summary.total_rows
            ELSE Cardinality(nodes) = summary.total_rows

\* C30 witness: price_paid had the same row twice and both were mapped: two
\* mapped rows, one entity node
C30_Witness ==
    /\ pc = "combine"
    /\ Source = "price_paid"
    /\ summary.mapped_rows = 2
    /\ Cardinality({tr[1] : tr \in {x \in built : x[2] = "rdf:type"
                                                  /\ x[3] = URIRef("prop:Property", <<>>)}}) = 1

====
